---- MODULE Spec2Model ----
(***************************************************************************)
(* A state-machine model of the tick-level simulation engine               *)
(* (simulation_models/simulation.py) together with the task lifecycle      *)
(* (task.py), the robot execution model (robot.py), the grid environment   *)
(* (environment.py), the BFS pathfinder (bfs_pathfinding.py) and the fork  *)
(* operation of the tool server (mcp_server/sim_state.py).                 *)
(*                                                                         *)
(* Numbers.  Position coordinates are floats in the source; here they are  *)
(* fixed-point integers in units of 1/Scale of a cell, so the cell (3, 2)  *)
(* is the position <<30, 20>> and the body radius 0.4 is 4.  Battery       *)
(* levels are integers in units of 1/10000, so a full battery is 10000 and *)
(* the idle drain 0.0005 is 5.  Time values are their tick counts.         *)
(*                                                                         *)
(* Objects.  RobotState and TaskState are mutable dataclasses and          *)
(* TaskState.assigned_robot_ids is a mutable set.  The model keeps these   *)
(* objects in `heap` and stores their addresses in the state maps, so that *)
(* a copy (dataclasses.replace, TaskState(...), set(...)), a rebinding     *)
(* (state.assigned_robot_ids = ...) and an in-place mutation (a field      *)
(* assignment, .clear()) are different things.  An operation on an object  *)
(* takes its address and the heap and returns the new heap.                *)
(***************************************************************************)
EXTENDS Integers, Sequences, FiniteSets, TLC

VARIABLES
    environment,   \* the Environment shared by every engine and snapshot
    robots,        \* list[Robot]: the immutable robot definitions
    tasks,         \* list[Task]: the immutable task definitions
    sims,          \* the Simulation objects: "live", "fork", "twin"
    heap,          \* the RobotState, TaskState and set objects, by address
    results,       \* what run() returned, per engine
    raised,        \* the exception the last call on each engine raised
    calls          \* the number of direct calls of Task operations so far

vars == <<environment, robots, tasks, sims, heap, results, raised, calls>>

-----------------------------------------------------------------------------
(* Bounds of the model *)

\* ticks any one engine performs
MaxTick == 3

\* the direct calls of Task operations explored in one behaviour
MaxCalls == 2

\* run() is called on an engine that has ticked at most this often
MaxRunStart == 0

\* the add_obstacle and add_zone calls made on one environment
MaxEnvCalls == 3

-----------------------------------------------------------------------------
(* Value types *)

\* fixed-point denominator of a Position coordinate
Scale == 10

\* Position | None, where a Position is expected
NonePos == <<>>

\* Time | None, where a Time is expected
NoneTime == 0 - 1

\* a Simulation that has not been constructed
\* no exception: the call returned normally
NoException == "none"

\* assignment_algorithm left at its default None
NoPolicy == [kind |-> "none"]

\* pathfinding_algorithm left at its default None
NoPathfinding == "none"

NoSim == [absent |-> TRUE]

Position(cx, cy) == <<cx * Scale, cy * Scale>>

Abs(n) == IF n < 0 THEN 0 - n ELSE n

Min2(a, b) == IF a <= b THEN a ELSE b

Max2(a, b) == IF a >= b THEN a ELSE b

\* Python's int() on a float: truncation toward zero
IntTrunc(v) == IF v >= 0 THEN v \div Scale ELSE 0 - ((0 - v) \div Scale)

\* floor of the square root (math.sqrt, exact on perfect squares)
RECURSIVE SqrtFrom(_, _)
SqrtFrom(n, k) == IF (k + 1) * (k + 1) > n THEN k ELSE SqrtFrom(n, k + 1)

ISqrt(n) == SqrtFrom(n, 0)

\* the square of Position.distance
Distance2(p, q) == (p[1] - q[1]) * (p[1] - q[1]) + (p[2] - q[2]) * (p[2] - q[2])

\* Position.near(other, eps): distance < eps
near(p, q, eps) == Distance2(p, q) < eps * eps

up(p) == <<p[1], p[2] - Scale>>

down(p) == <<p[1], p[2] + Scale>>

left(p) == <<p[1] - Scale, p[2]>>

right(p) == <<p[1] + Scale, p[2]>>

-----------------------------------------------------------------------------
(* Environment *)

\* Environment._cell
Cell(p) == <<IntTrunc(p[1]), IntTrunc(p[2])>>

\* Environment.in_bounds / _position_in_bounds
in_bounds(env, p) ==
    /\ 0 <= p[1] /\ p[1] < env.width * Scale
    /\ 0 <= p[2] /\ p[2] < env.height * Scale

\* Environment.get_zone: the Zone's cells in iteration order, or <<>> for None
get_zone(env, zone_id) ==
    IF zone_id \in DOMAIN env.zones THEN env.zones[zone_id] ELSE <<>>

\* the grid cells that hold an object; obstacles are the only objects placed
OccupiedCells(env) == {Cell(o) : o \in env.obstacles}

\* Environment.place: the exception it raises, if any; the grid write itself
\* is part of OccupiedCells once the obstacle is recorded
place(env, pos) ==
    IF ~in_bounds(env, pos) THEN "IndexError"
    ELSE IF Cell(pos) \in OccupiedCells(env) THEN "ValueError"
    ELSE NoException

\* Environment.add_obstacle
add_obstacle(env, pos) ==
    IF pos \in env.obstacles THEN [env |-> env, raised |-> NoException]
    ELSE IF place(env, pos) # NoException
    THEN [env |-> env, raised |-> place(env, pos)]
    ELSE [env |-> [env EXCEPT !.obstacles = @ \cup {pos}],
          raised |-> NoException]

\* Zone: an id and its cells in the iteration order of the frozenset
Zone(id, cells) == [id |-> id, cells |-> cells]

\* Zone.cells as a set
CellSet(cells) == {cells[i] : i \in DOMAIN cells}

\* self._zones[zone.id] = zone
StoreZone(env, key, zone) ==
    [env EXCEPT !.zones =
        [k \in DOMAIN env.zones \cup {key} |->
            IF k = key THEN zone.cells ELSE env.zones[k]]]

\* a faulty add_zone without the overlap validation
add_zone_allowing_overlap(env, zone) ==
    IF zone.id \in DOMAIN env.zones THEN [env |-> env, raised |-> "ValueError"]
    ELSE IF \E pos \in CellSet(zone.cells) : ~in_bounds(env, pos)
    THEN [env |-> env, raised |-> "IndexError"]
    ELSE [env |-> StoreZone(env, zone.id, zone), raised |-> NoException]

\* a faulty add_zone that commits the zone before validating its cells
add_zone_committing_first(env, zone) ==
    IF zone.id \in DOMAIN env.zones THEN [env |-> env, raised |-> "ValueError"]
    ELSE IF \E pos \in CellSet(zone.cells) : ~in_bounds(env, pos)
    THEN [env |-> StoreZone(env, zone.id, zone), raised |-> "IndexError"]
    ELSE IF \E k \in DOMAIN env.zones :
                CellSet(zone.cells) \cap CellSet(env.zones[k]) # {}
    THEN [env |-> StoreZone(env, zone.id, zone), raised |-> "ValueError"]
    ELSE [env |-> StoreZone(env, zone.id, zone), raised |-> NoException]

\* a faulty add_zone that files the zone under the next free number
add_zone_numbering(env, zone) ==
    IF zone.id \in DOMAIN env.zones THEN [env |-> env, raised |-> "ValueError"]
    ELSE IF \E pos \in CellSet(zone.cells) : ~in_bounds(env, pos)
    THEN [env |-> env, raised |-> "IndexError"]
    ELSE IF \E k \in DOMAIN env.zones :
                CellSet(zone.cells) \cap CellSet(env.zones[k]) # {}
    THEN [env |-> env, raised |-> "ValueError"]
    ELSE [env |-> StoreZone(env, Cardinality(DOMAIN env.zones) + 1, zone),
          raised |-> NoException]

\* Environment.add_zone
add_zone(env, zone) ==
    IF zone.id \in DOMAIN env.zones THEN [env |-> env, raised |-> "ValueError"]
    ELSE IF \E pos \in CellSet(zone.cells) : ~in_bounds(env, pos)
    THEN [env |-> env, raised |-> "IndexError"]
    ELSE IF \E k \in DOMAIN env.zones :
                CellSet(zone.cells) \cap CellSet(env.zones[k]) # {}
    THEN [env |-> env, raised |-> "ValueError"]
    ELSE [env |-> StoreZone(env, zone.id, zone), raised |-> NoException]

-----------------------------------------------------------------------------
(* BFS pathfinding *)

_neighbors(p) == <<up(p), down(p), left(p), right(p)>>

\* a faulty scan that treats the cells of other robots as free
BfsScanIgnoringOccupied(env, goal, occupied, current, first_step, st0) ==
    LET nb == _neighbors(current)
        Visit(s, i) ==
            IF s.result # NonePos THEN s
            ELSE LET n == nb[i]
                     fs == IF first_step = NonePos THEN n ELSE first_step
                 IN IF n \in s.visited THEN s
                    ELSE IF ~in_bounds(env, n) THEN s
                    ELSE IF n \in env.obstacles THEN s
                    ELSE IF n = goal THEN [s EXCEPT !.result = fs]
                    ELSE [s EXCEPT !.visited = @ \cup {n},
                                   !.queue = Append(@, <<n, fs>>)]
    IN Visit(Visit(Visit(Visit(st0, 1), 2), 3), 4)

\* a faulty scan that treats obstacle cells as free
BfsScanThroughObstacles(env, goal, occupied, current, first_step, st0) ==
    LET nb == _neighbors(current)
        Visit(s, i) ==
            IF s.result # NonePos THEN s
            ELSE LET n == nb[i]
                     fs == IF first_step = NonePos THEN n ELSE first_step
                 IN IF n \in s.visited THEN s
                    ELSE IF ~in_bounds(env, n) THEN s
                    ELSE IF n \in occupied THEN s
                    ELSE IF n = goal THEN [s EXCEPT !.result = fs]
                    ELSE [s EXCEPT !.visited = @ \cup {n},
                                   !.queue = Append(@, <<n, fs>>)]
    IN Visit(Visit(Visit(Visit(st0, 1), 2), 3), 4)

\* a faulty scan that recognises the goal before testing whether it is blocked
BfsScanGoalFirst(env, goal, occupied, current, first_step, st0) ==
    LET nb == _neighbors(current)
        Visit(s, i) ==
            IF s.result # NonePos THEN s
            ELSE LET n == nb[i]
                     fs == IF first_step = NonePos THEN n ELSE first_step
                 IN IF n \in s.visited THEN s
                    ELSE IF ~in_bounds(env, n) THEN s
                    ELSE IF n = goal THEN [s EXCEPT !.result = fs]
                    ELSE IF n \in env.obstacles \/ n \in occupied THEN s
                    ELSE [s EXCEPT !.visited = @ \cup {n},
                                   !.queue = Append(@, <<n, fs>>)]
    IN Visit(Visit(Visit(Visit(st0, 1), 2), 3), 4)

\* one pass of `for neighbor in _neighbors(current)`; first_step = NonePos in
\* the pass over the neighbours of start
BfsScan(env, goal, occupied, current, first_step, st0) ==
    LET nb == _neighbors(current)
        Visit(s, i) ==
            IF s.result # NonePos THEN s
            ELSE LET n == nb[i]
                     fs == IF first_step = NonePos THEN n ELSE first_step
                 IN IF n \in s.visited THEN s
                    ELSE IF ~in_bounds(env, n) THEN s
                    ELSE IF n \in env.obstacles \/ n \in occupied THEN s
                    ELSE IF n = goal THEN [s EXCEPT !.result = fs]
                    ELSE [s EXCEPT !.visited = @ \cup {n},
                                   !.queue = Append(@, <<n, fs>>)]
    IN Visit(Visit(Visit(Visit(st0, 1), 2), 3), 4)

\* a faulty search loop that pops the newest queue entry (depth first)
RECURSIVE BfsLoopDepthFirst(_, _, _, _)
BfsLoopDepthFirst(env, goal, occupied, st) ==
    IF st.result # NonePos THEN st.result
    ELSE IF st.queue = <<>> THEN NonePos
    ELSE LET h == st.queue[Len(st.queue)]
         IN BfsLoopDepthFirst(env, goal, occupied,
                    BfsScan(env, goal, occupied, h[1], h[2],
                            [st EXCEPT !.queue = SubSeq(@, 1, Len(@) - 1)]))

RECURSIVE BfsLoop(_, _, _, _)
BfsLoop(env, goal, occupied, st) ==
    IF st.result # NonePos THEN st.result
    ELSE IF st.queue = <<>> THEN NonePos
    ELSE LET h == Head(st.queue)
         IN BfsLoop(env, goal, occupied,
                    BfsScan(env, goal, occupied, h[1], h[2],
                            [st EXCEPT !.queue = Tail(@)]))

bfs_pathfind(env, start, goal, occupied) ==
    IF start = goal THEN start
    ELSE BfsLoop(env, goal, occupied,
                 BfsScan(env, goal, occupied, start, NonePos,
                         [result |-> NonePos, visited |-> {start}, queue |-> <<>>]))

-----------------------------------------------------------------------------
(* A* pathfinding *)

\* costs and scores are kept in tenths: a cardinal move costs 1.0, a diagonal
\* move sqrt(2), rounded down to 1.4
CardinalCost == Scale

DiagonalCost == ISqrt(2 * Scale * Scale)

\* astar_pathfinding._neighbors: the 8-connected neighbours inside the grid
\* with their costs, in the order of the candidate list
astar_neighbors(cell, width, height) ==
    LET cx == cell[1]
        cy == cell[2]
        candidates ==
            << <<cx + 1, cy, CardinalCost>>, <<cx - 1, cy, CardinalCost>>,
               <<cx, cy + 1, CardinalCost>>, <<cx, cy - 1, CardinalCost>>,
               <<cx + 1, cy + 1, DiagonalCost>>, <<cx + 1, cy - 1, DiagonalCost>>,
               <<cx - 1, cy + 1, DiagonalCost>>, <<cx - 1, cy - 1, DiagonalCost>> >>
        Inside(c) == 0 <= c[1] /\ c[1] < width /\ 0 <= c[2] /\ c[2] < height
    IN SelectSeq(candidates, Inside)

\* h(cell): the Euclidean distance to the goal cell, in tenths
AstarHeuristic(cell, goal_cell) ==
    LET dx == Abs(cell[1] - goal_cell[1])
        dy == Abs(cell[2] - goal_cell[2])
    IN SqrtFrom((dx * dx + dy * dy) * Scale * Scale, Scale * Max2(dx, dy))

\* the integer cells of a set of positions
CellsOf(positions) == {Cell(p) : p \in positions}

\* inflated: the cardinal neighbours of obstacle cells that are no obstacles
Inflated(obstacle_cells) ==
    {<<o[1] + d[1], o[2] + d[2]>> :
        o \in obstacle_cells, d \in {<<1, 0>>, <<0 - 1, 0>>, <<0, 1>>, <<0, 0 - 1>>}}
    \ obstacle_cells

\* a faulty blocked set that exempts every cell next to the goal from inflation
BlockedSparingGoalRing(env, goal_cell, occupied) ==
    LET obstacle_cells == CellsOf(env.obstacles)
        ring == {c \in Inflated(obstacle_cells) :
                    Abs(c[1] - goal_cell[1]) <= 1 /\ Abs(c[2] - goal_cell[2]) <= 1}
    IN obstacle_cells \cup (Inflated(obstacle_cells) \ ring) \cup CellsOf(occupied)

\* blocked = obstacle_cells | (inflated - {goal_cell}) | occupied_cells
Blocked(env, goal_cell, occupied) ==
    LET obstacle_cells == CellsOf(env.obstacles)
    IN obstacle_cells \cup (Inflated(obstacle_cells) \ {goal_cell})
           \cup CellsOf(occupied)

\* the order of the heap entries (f, g, cell, first_step): Python's tuple order
HeapLess(a, b) ==
    LET Flat(t) == <<t[1], t[2], t[3][1], t[3][2], t[4][1], t[4][2]>>
        x == Flat(a)
        y == Flat(b)
    IN \E i \in 1..6 : x[i] < y[i] /\ \A j \in 1..(i - 1) : x[j] = y[j]

\* heapq.heappop: the least entry
HeapTop(open_heap) ==
    CHOOSE t \in open_heap : \A u \in open_heap : u = t \/ HeapLess(t, u)

\* `for nx, ny, cost in _neighbors(start_cell, ...)`: the entries pushed for
\* the neighbours of the start cell, or the goal when it is one of them
RECURSIVE AstarSeed(_, _, _, _, _)
AstarSeed(nb, i, goal_cell, blocked, st) ==
    IF i > Len(nb) \/ st.result # NonePos THEN st
    ELSE LET n == <<nb[i][1], nb[i][2]>>
             g == nb[i][3]
         IN IF n \in blocked THEN AstarSeed(nb, i + 1, goal_cell, blocked, st)
            ELSE IF n = goal_cell
            THEN [st EXCEPT !.result = Position(n[1], n[2])]
            ELSE AstarSeed(nb, i + 1, goal_cell, blocked,
                     [st EXCEPT
                         !.open_heap = @ \cup {<<g + AstarHeuristic(n, goal_cell), g, n, n>>},
                         !.g_score = (n :> g) @@ @,
                         !.came_first = (n :> n) @@ @])

\* `for nx, ny, cost in _neighbors(current, ...)` of the main loop
RECURSIVE AstarExpand(_, _, _, _, _, _, _, _)
AstarExpand(nb, i, goal_cell, blocked, current, g, first_step, st) ==
    IF i > Len(nb) THEN st
    ELSE LET n == <<nb[i][1], nb[i][2]>>
             new_g == g + nb[i][3]
             step == IF current \in DOMAIN st.came_first
                     THEN st.came_first[current] ELSE first_step
         IN IF n \in st.visited \/ n \in blocked
            THEN AstarExpand(nb, i + 1, goal_cell, blocked, current, g, first_step, st)
            ELSE IF n \notin DOMAIN st.g_score \/ new_g < st.g_score[n]
            THEN AstarExpand(nb, i + 1, goal_cell, blocked, current, g, first_step,
                     [st EXCEPT
                         !.open_heap = @ \cup
                             {<<new_g + AstarHeuristic(n, goal_cell), new_g, n, step>>},
                         !.g_score = (n :> new_g) @@ @,
                         !.came_first = (n :> step) @@ @])
            ELSE AstarExpand(nb, i + 1, goal_cell, blocked, current, g, first_step, st)

\* `while open_heap`
RECURSIVE AstarLoop(_, _, _, _)
AstarLoop(env, goal_cell, blocked, st) ==
    IF st.open_heap = {} THEN NonePos
    ELSE LET top == HeapTop(st.open_heap)
             popped == [st EXCEPT !.open_heap = @ \ {top}]
         IN IF top[3] \in st.visited
            THEN AstarLoop(env, goal_cell, blocked, popped)
            ELSE IF top[3] = goal_cell THEN Position(top[4][1], top[4][2])
            ELSE AstarLoop(env, goal_cell, blocked,
                     AstarExpand(astar_neighbors(top[3], env.width, env.height), 1,
                                 goal_cell, blocked, top[3], top[2], top[4],
                                 [popped EXCEPT !.visited = @ \cup {top[3]}]))

\* astar_pathfind
astar_pathfind(env, start, goal, occupied) ==
    LET start_cell == Cell(start)
        goal_cell == Cell(goal)
        blocked == Blocked(env, goal_cell, occupied)
        seeded == AstarSeed(astar_neighbors(start_cell, env.width, env.height), 1,
                            goal_cell, blocked,
                            [result |-> NonePos, open_heap |-> {},
                             g_score |-> (start_cell :> 0), came_first |-> <<>>,
                             visited |-> {start_cell}])
    IN IF start_cell = goal_cell THEN goal
       ELSE IF start_cell \in CellsOf(env.obstacles) THEN NonePos
       ELSE IF seeded.result # NonePos THEN seeded.result
       ELSE AstarLoop(env, goal_cell, blocked, seeded)

-----------------------------------------------------------------------------
(* Robot: the execution model *)

\* Robot.radius: the body radius, 0.4 of a cell
Radius == 4

\* battery drained per unit of distance moved (0.001)
_DRAIN_MOVE_PER_UNIT == 10

\* battery drained per tick of work (0.002)
_DRAIN_WORK_PER_TICK == 20

\* battery drained per idle tick (0.0005)
_DRAIN_IDLE_PER_TICK == 5

\* the signed quotient n * num / den, rounded toward zero
ScaleBy(n, num, den) ==
    IF n >= 0 THEN (n * num) \div den ELSE 0 - (((0 - n) * num) \div den)

\* Robot.move_towards(state, target, dt): a straight line toward the target,
\* at most speed * dt far; no bounds or collision check
move_towards(robot, state, target, dt, h) ==
    LET dx == target[1] - h[state].position[1]
        dy == target[2] - h[state].position[2]
        d2 == dx * dx + dy * dy
        distance_to_target == ISqrt(d2)
        max_distance == robot.speed * dt
    IN IF d2 = 0 THEN h
       ELSE IF d2 <= max_distance * max_distance
       THEN [h EXCEPT
                ![state].position = target,
                ![state].battery_level =
                    @ - (distance_to_target * _DRAIN_MOVE_PER_UNIT) \div Scale]
       ELSE [h EXCEPT
                ![state].position =
                    <<@[1] + ScaleBy(dx, max_distance, distance_to_target),
                      @[2] + ScaleBy(dy, max_distance, distance_to_target)>>,
                ![state].battery_level =
                    @ - (max_distance * _DRAIN_MOVE_PER_UNIT) \div Scale]

\* move_towards of the discrete-cell variant: the robot moves exactly one
\* cell, onto the planner's step, if speed * dt covers the distance
move_towards_discrete(robot, state, target, dt, h) ==
    LET manhattan == Abs(target[1] - h[state].position[1])
                     + Abs(target[2] - h[state].position[2])
    IN IF manhattan = 0 \/ robot.speed * dt < manhattan THEN h
       ELSE [h EXCEPT
                ![state].position = target,
                ![state].battery_level =
                    @ - (manhattan * _DRAIN_MOVE_PER_UNIT) \div Scale]

\* Robot.work(state, dt)
work(state, dt, h) ==
    [h EXCEPT ![state].battery_level = @ - dt * _DRAIN_WORK_PER_TICK]

\* a faulty idle that drains the battery at the work rate
idle_at_work_rate(state, dt, h) ==
    [h EXCEPT ![state].battery_level = @ - dt * _DRAIN_WORK_PER_TICK]

\* Robot.idle(state, dt)
idle(state, dt, h) ==
    [h EXCEPT ![state].battery_level = @ - dt * _DRAIN_IDLE_PER_TICK]

-----------------------------------------------------------------------------
(* Task: the lifecycle operations on a TaskState *)

TerminalStatuses == {"done", "failed"}

\* a faulty set_assignment that sends every task without robots back to
\* unassigned, whatever its status
set_assignment_resetting(state, robot_ids, h) ==
    [Append(h, robot_ids) EXCEPT
        ![state] =
            [@ EXCEPT
                !.assigned_robot_ids = Len(h) + 1,
                !.status =
                    IF robot_ids = {} THEN "unassigned"
                    ELSE IF @ = "unassigned" THEN "assigned"
                    ELSE @]]

\* a faulty set_assignment that adds the robots to the set already assigned
set_assignment_adding(state, robot_ids, h) ==
    LET merged == h[h[state].assigned_robot_ids] \cup robot_ids
    IN [Append(h, merged) EXCEPT
           ![state] =
               [@ EXCEPT
                   !.assigned_robot_ids = Len(h) + 1,
                   !.status =
                       IF merged = {} /\ @ \in {"unassigned", "assigned"}
                       THEN "unassigned"
                       ELSE IF merged # {} /\ @ = "unassigned" THEN "assigned"
                       ELSE @]]

\* Task.set_assignment: binds a fresh set object, then adjusts the status
set_assignment(state, robot_ids, h) ==
    [Append(h, robot_ids) EXCEPT
        ![state] =
            [@ EXCEPT
                !.assigned_robot_ids = Len(h) + 1,
                !.status =
                    IF robot_ids = {} /\ @ \in {"unassigned", "assigned"}
                    THEN "unassigned"
                    ELSE IF robot_ids # {} /\ @ = "unassigned" THEN "assigned"
                    ELSE @]]

\* a faulty mark_done that leaves the assigned set as it is
mark_done_keeping_assignment(state, t_now, h) ==
    [h EXCEPT ![state] = [@ EXCEPT !.status = "done", !.completed_at = t_now]]

\* Task.mark_done: clears the assigned set in place
mark_done(state, t_now, h) ==
    [h EXCEPT ![h[state].assigned_robot_ids] = {},
              ![state] = [@ EXCEPT !.status = "done", !.completed_at = t_now]]

\* Task.mark_failed: clears the assigned set in place
mark_failed(state, t_now, h) ==
    [h EXCEPT ![h[state].assigned_robot_ids] = {},
              ![state] = [@ EXCEPT !.status = "failed", !.completed_at = t_now]]

\* a faulty apply_work without the guard on terminal states
apply_work_unguarded(task, state, dt, t_now, h) ==
    LET worked ==
            [h EXCEPT ![state] =
                [@ EXCEPT
                    !.started_at = IF @ = NoneTime THEN t_now ELSE @,
                    !.status = "in_progress",
                    !.work_done = @ + dt]]
    IN IF worked[state].work_done >= task.required_work_time
       THEN mark_done(state, t_now, worked)
       ELSE worked

\* a faulty apply_work that counts one unit of work per call, whatever dt
apply_work_unit(task, state, dt, t_now, h) ==
    IF h[state].status \in TerminalStatuses THEN h
    ELSE LET worked ==
                 [h EXCEPT ![state] =
                     [@ EXCEPT
                         !.started_at = IF @ = NoneTime THEN t_now ELSE @,
                         !.status = "in_progress",
                         !.work_done = @ + 1]]
         IN IF worked[state].work_done >= task.required_work_time
            THEN mark_done(state, t_now, worked)
            ELSE worked

\* a faulty apply_work that restamps started_at on every call
apply_work_restarting(task, state, dt, t_now, h) ==
    IF h[state].status \in TerminalStatuses THEN h
    ELSE LET worked ==
                 [h EXCEPT ![state] =
                     [@ EXCEPT
                         !.started_at = t_now,
                         !.status = "in_progress",
                         !.work_done = @ + dt]]
         IN IF worked[state].work_done >= task.required_work_time
            THEN mark_done(state, t_now, worked)
            ELSE worked

\* a faulty apply_work that fails the task when its work is complete
apply_work_failing(task, state, dt, t_now, h) ==
    IF h[state].status \in TerminalStatuses THEN h
    ELSE LET worked ==
                 [h EXCEPT ![state] =
                     [@ EXCEPT
                         !.started_at = IF @ = NoneTime THEN t_now ELSE @,
                         !.status = "in_progress",
                         !.work_done = @ + dt]]
         IN IF worked[state].work_done >= task.required_work_time
            THEN mark_failed(state, t_now, worked)
            ELSE worked

\* a faulty apply_work that completes the task only once the work exceeds
\* what is required
apply_work_overshooting(task, state, dt, t_now, h) ==
    IF h[state].status \in TerminalStatuses THEN h
    ELSE LET worked ==
                 [h EXCEPT ![state] =
                     [@ EXCEPT
                         !.started_at = IF @ = NoneTime THEN t_now ELSE @,
                         !.status = "in_progress",
                         !.work_done = @ + dt]]
         IN IF worked[state].work_done > task.required_work_time
            THEN mark_done(state, t_now, worked)
            ELSE worked

\* Task.apply_work
apply_work(task, state, dt, t_now, h) ==
    IF h[state].status \in TerminalStatuses THEN h
    ELSE LET worked ==
                 [h EXCEPT ![state] =
                     [@ EXCEPT
                         !.started_at = IF @ = NoneTime THEN t_now ELSE @,
                         !.status = "in_progress",
                         !.work_done = @ + dt]]
         IN IF worked[state].work_done >= task.required_work_time
            THEN mark_done(state, t_now, worked)
            ELSE worked

-----------------------------------------------------------------------------
(* Simulation: the engine *)

\* goal-reached epsilon: within half a cell counts as "at goal"
_AT_GOAL_EPS == 5

RobotIds == {robots[i].id : i \in DOMAIN robots}

TaskIds == {tasks[i].id : i \in DOMAIN tasks}

\* Simulation._robot_by_id
_robot_by_id(rid) ==
    robots[CHOOSE i \in DOMAIN robots :
               robots[i].id = rid /\ \A j \in DOMAIN robots : robots[j].id = rid => j <= i]

\* Simulation._task_by_id
_task_by_id(tid) ==
    tasks[CHOOSE i \in DOMAIN tasks :
              tasks[i].id = tid /\ \A j \in DOMAIN tasks : tasks[j].id = tid => j <= i]

\* the first index of the sequence with the least key (Python's min)
ArgMin(keys) ==
    CHOOSE i \in DOMAIN keys :
        /\ \A j \in DOMAIN keys : keys[i] <= keys[j]
        /\ \A j \in DOMAIN keys : keys[j] = keys[i] => i <= j

\* Simulation._resolve_task_target_position
_resolve_task_target_position(task, robot_pos) ==
    LET sc == task.spatial_constraint
    IN IF sc.kind = "none" THEN NonePos
       ELSE IF sc.kind = "position" THEN sc.target
       ELSE LET cells == get_zone(environment, sc.target)
            IN IF cells = <<>> THEN NonePos
               ELSE cells[ArgMin([i \in DOMAIN cells |->
                                    Abs(cells[i][1] - robot_pos[1])
                                    + Abs(cells[i][2] - robot_pos[2])])]

\* a faulty reverse index in which the first assignment naming a robot wins
robot_assignment_first_wins(assignments) ==
    [rid \in UNION {assignments[i].robot_ids : i \in DOMAIN assignments} |->
        assignments[CHOOSE i \in DOMAIN assignments :
                        /\ rid \in assignments[i].robot_ids
                        /\ \A j \in DOMAIN assignments :
                               rid \in assignments[j].robot_ids => i <= j].task_id]

\* the robot -> task reverse index of _step: the last assignment naming a
\* robot wins
robot_assignment_of(assignments) ==
    [rid \in UNION {assignments[i].robot_ids : i \in DOMAIN assignments} |->
        assignments[CHOOSE i \in DOMAIN assignments :
                        /\ rid \in assignments[i].robot_ids
                        /\ \A j \in DOMAIN assignments :
                               rid \in assignments[j].robot_ids => j <= i].task_id]

\* a faulty update that skips the tasks no robot points to
RECURSIVE UpdateNamedTasksOnly(_, _, _, _)
UpdateNamedTasksOnly(sim, i, robot_assignment, h) ==
    IF i > Len(tasks) THEN h
    ELSE IF \A rid \in DOMAIN robot_assignment : robot_assignment[rid] # tasks[i].id
    THEN UpdateNamedTasksOnly(sim, i + 1, robot_assignment, h)
    ELSE UpdateNamedTasksOnly(sim, i + 1, robot_assignment,
             set_assignment(sim.task_states[tasks[i].id],
                            {rid \in DOMAIN robot_assignment :
                                 robot_assignment[rid] = tasks[i].id},
                            h))

\* "Update task assignment states": set_assignment on every task, in list order
RECURSIVE UpdateAssignmentStates(_, _, _, _)
UpdateAssignmentStates(sim, i, robot_assignment, h) ==
    IF i > Len(tasks) THEN h
    ELSE UpdateAssignmentStates(sim, i + 1, robot_assignment,
             set_assignment(sim.task_states[tasks[i].id],
                            {rid \in DOMAIN robot_assignment :
                                 robot_assignment[rid] = tasks[i].id},
                            h))

\* the pathfinding strategy bound to the engine, called as the plan phase
\* calls it.  Besides bfs_pathfind the field can hold any callable; two that
\* break the contract are modelled: "jump" returns the goal itself, however
\* far away, and "step_up" returns the cell above the start, in bounds or not
Pathfind(algorithm, start, goal, occupied) ==
    CASE algorithm = "bfs" -> bfs_pathfind(environment, start, goal, occupied)
      [] algorithm = "astar" -> astar_pathfind(environment, start, goal, occupied)
      [] algorithm = "jump" -> goal
      [] algorithm = "step_up" -> <<start[1], start[2] - Scale>>

\* a faulty goal-arrival test that accepts the cells next to the goal
AtGoalWithinReach(sim, position, goal) ==
    near(position, goal, Scale + _AT_GOAL_EPS)

\* the goal-arrival test: within _AT_GOAL_EPS in the continuous engine, exact
\* equality in the discrete-cell variant
AtGoal(sim, position, goal) ==
    IF sim.variant = "discrete" THEN position = goal
    ELSE near(position, goal, _AT_GOAL_EPS)

\* plan phase, one robot: its entry of planned_moves
PlannedMove(sim, robot_assignment, h, robot_id) ==
    IF robot_id \notin DOMAIN robot_assignment THEN NonePos
    ELSE LET task_id == robot_assignment[robot_id]
             task == _task_by_id(task_id)
             position == h[sim.robot_states[robot_id]].position
             goal == _resolve_task_target_position(task, position)
         IN IF h[sim.task_states[task_id]].status \in TerminalStatuses THEN NonePos
            ELSE IF goal = NonePos THEN NonePos
            ELSE IF AtGoal(sim, position, goal) THEN NonePos
            ELSE Pathfind(sim.pathfinding_algorithm, position, goal,
                          {h[sim.robot_states[other]].position :
                               other \in DOMAIN sim.robot_states \ {robot_id}})

\* "Detect planned collisions": the pairwise loop over moving_robots; a robot
\* whose planned position lies within the two radii of an earlier, unblocked
\* robot's planned position loses its move
RECURSIVE ConflictLoop(_, _, _, _)
ConflictLoop(moving_robots, original, i, planned_moves) ==
    IF i > Len(moving_robots) THEN planned_moves
    ELSE LET rid_a == moving_robots[i]
         IN IF planned_moves[rid_a] = NonePos
            THEN ConflictLoop(moving_robots, original, i + 1, planned_moves)
            ELSE ConflictLoop(moving_robots, original, i + 1,
                     [rid_b \in DOMAIN planned_moves |->
                         IF /\ \E j \in (i + 1)..Len(moving_robots) : moving_robots[j] = rid_b
                            /\ planned_moves[rid_b] # NonePos
                            /\ Distance2(original[rid_a], original[rid_b])
                                   < (_robot_by_id(rid_a).radius + _robot_by_id(rid_b).radius)
                                     * (_robot_by_id(rid_a).radius + _robot_by_id(rid_b).radius)
                         THEN NonePos
                         ELSE planned_moves[rid_b]])

\* conflict resolution of the discrete-cell variant: of the robots planning
\* to enter the same cell the one with the smallest id proceeds
resolve_conflicts_discrete(planned_moves) ==
    [rid \in DOMAIN planned_moves |->
        IF \E other \in DOMAIN planned_moves :
               /\ other < rid
               /\ planned_moves[rid] # NonePos
               /\ planned_moves[other] = planned_moves[rid]
        THEN NonePos
        ELSE planned_moves[rid]]

\* moving_robots: the robots with a planned move, in planned_moves order
RECURSIVE MovingRobots(_, _)
MovingRobots(order, planned_moves) ==
    IF order = <<>> THEN <<>>
    ELSE IF planned_moves[Head(order)] # NonePos
    THEN <<Head(order)>> \o MovingRobots(Tail(order), planned_moves)
    ELSE MovingRobots(Tail(order), planned_moves)

\* Simulation._push_out_of_obstacles: one of the nine cells around (cx, cy)
PushOutCell(position, cx, cy, dox, doy, radius, obstacles) ==
    LET ox == (cx + dox) * Scale
        oy == (cy + doy) * Scale
        nearest_x == Max2(ox, Min2(position[1], ox + Scale))
        nearest_y == Max2(oy, Min2(position[2], oy + Scale))
        dx == position[1] - nearest_x
        dy == position[2] - nearest_y
        d2 == dx * dx + dy * dy
    IN IF <<ox, oy>> \notin obstacles THEN position
       ELSE IF d2 >= radius * radius THEN position
       ELSE IF d2 > 0
       THEN <<nearest_x + ScaleBy(dx, radius, ISqrt(d2)),
              nearest_y + ScaleBy(dy, radius, ISqrt(d2))>>
       ELSE <<position[1], oy - radius>>

\* the nine offsets in loop order: dox outer, doy inner
PushOutOffsets ==
    <<<<0 - 1, 0 - 1>>, <<0 - 1, 0>>, <<0 - 1, 1>>,
      <<0, 0 - 1>>, <<0, 0>>, <<0, 1>>,
      <<1, 0 - 1>>, <<1, 0>>, <<1, 1>>>>

RECURSIVE PushOutLoop(_, _, _, _, _, _)
PushOutLoop(position, cx, cy, k, radius, obstacles) ==
    IF k > Len(PushOutOffsets) THEN position
    ELSE PushOutLoop(PushOutCell(position, cx, cy, PushOutOffsets[k][1],
                                 PushOutOffsets[k][2], radius, obstacles),
                     cx, cy, k + 1, radius, obstacles)

\* Simulation._push_out_of_obstacles
_push_out_of_obstacles(state, radius, obstacles, h) ==
    [h EXCEPT ![state].position =
        PushOutLoop(@, IntTrunc(@[1]), IntTrunc(@[2]), 1, radius, obstacles)]

\* a faulty execute step in which a robot without a planned step works on its
\* task wherever it stands
ExecuteRobotWorkingWhenStuck(sim, robot_assignment, planned_moves, t_now, h, robot_id) ==
    LET robot == _robot_by_id(robot_id)
        state == sim.robot_states[robot_id]
        next_pos == planned_moves[robot_id]
        task_id == robot_assignment[robot_id]
        task == _task_by_id(task_id)
        task_state == sim.task_states[task_id]
    IN IF robot_id \notin DOMAIN robot_assignment THEN idle(state, sim.dt, h)
       ELSE IF h[task_state].status \in TerminalStatuses THEN idle(state, sim.dt, h)
       ELSE IF next_pos # NonePos /\ sim.variant = "discrete"
       THEN move_towards_discrete(robot, state, next_pos, sim.dt, h)
       ELSE IF next_pos # NonePos
       THEN _push_out_of_obstacles(state, robot.radius, environment.obstacles,
                                   move_towards(robot, state, next_pos, sim.dt, h))
       ELSE apply_work(task, task_state, sim.dt, t_now, work(state, sim.dt, h))

\* a faulty execute step without the short-circuit on a terminal task
ExecuteRobotIgnoringTerminal(sim, robot_assignment, planned_moves, t_now, h, robot_id) ==
    LET robot == _robot_by_id(robot_id)
        state == sim.robot_states[robot_id]
        next_pos == planned_moves[robot_id]
        task_id == robot_assignment[robot_id]
        task == _task_by_id(task_id)
        task_state == sim.task_states[task_id]
        goal == _resolve_task_target_position(task, h[state].position)
    IN IF robot_id \notin DOMAIN robot_assignment THEN idle(state, sim.dt, h)
       ELSE IF next_pos # NonePos /\ sim.variant = "discrete"
       THEN move_towards_discrete(robot, state, next_pos, sim.dt, h)
       ELSE IF next_pos # NonePos
       THEN _push_out_of_obstacles(state, robot.radius, environment.obstacles,
                                   move_towards(robot, state, next_pos, sim.dt, h))
       ELSE IF goal = NonePos \/ AtGoal(sim, h[state].position, goal)
       THEN apply_work(task, task_state, sim.dt, t_now, work(state, sim.dt, h))
       ELSE idle(state, sim.dt, h)

\* execute phase, one robot
ExecuteRobot(sim, robot_assignment, planned_moves, t_now, h, robot_id) ==
    LET robot == _robot_by_id(robot_id)
        state == sim.robot_states[robot_id]
        next_pos == planned_moves[robot_id]
        task_id == robot_assignment[robot_id]
        task == _task_by_id(task_id)
        task_state == sim.task_states[task_id]
        goal == _resolve_task_target_position(task, h[state].position)
    IN IF robot_id \notin DOMAIN robot_assignment THEN idle(state, sim.dt, h)
       ELSE IF h[task_state].status \in TerminalStatuses THEN idle(state, sim.dt, h)
       ELSE IF next_pos # NonePos /\ sim.variant = "discrete"
       THEN move_towards_discrete(robot, state, next_pos, sim.dt, h)
       ELSE IF next_pos # NonePos
       THEN _push_out_of_obstacles(state, robot.radius, environment.obstacles,
                                   move_towards(robot, state, next_pos, sim.dt, h))
       ELSE IF goal = NonePos \/ AtGoal(sim, h[state].position, goal)
       THEN apply_work(task, task_state, sim.dt, t_now, work(state, sim.dt, h))
       ELSE idle(state, sim.dt, h)

\* execute phase: the robots one after the other, in the given order
RECURSIVE ExecuteLoop(_, _, _, _, _, _)
ExecuteLoop(sim, robot_assignment, planned_moves, t_now, order, h) ==
    IF order = <<>> THEN h
    ELSE ExecuteLoop(sim, robot_assignment, planned_moves, t_now, Tail(order),
                     ExecuteRobot(sim, robot_assignment, planned_moves, t_now,
                                  h, Head(order)))

\* the position of a robot in the iteration order of a robot_states mapping
RobotIndex(order, rid) == CHOOSE k \in DOMAIN order : order[k] = rid

\* the position of a task in the task_states mapping
TaskIndex(tid) == CHOOSE i \in DOMAIN tasks : tasks[i].id = tid

\* the two copy loops shared by Simulation.snapshot and fork_sim:
\* dataclasses.replace(state) for every robot, and for every task a new
\* TaskState around set(state.assigned_robot_ids).  The copies are new
\* objects at fresh addresses.
CopyStates(sim, h) ==
    LET nr == Len(sim.robot_order)
        nt == Len(tasks)
    IN [heap |->
            h \o [k \in 1..nr |-> h[sim.robot_states[sim.robot_order[k]]]]
              \o [i \in 1..nt |-> h[h[sim.task_states[tasks[i].id]].assigned_robot_ids]]
              \o [i \in 1..nt |->
                     [h[sim.task_states[tasks[i].id]] EXCEPT
                         !.assigned_robot_ids = Len(h) + nr + i]],
        robot_states |->
            [rid \in DOMAIN sim.robot_states |->
                Len(h) + RobotIndex(sim.robot_order, rid)],
        task_states |->
            [tid \in DOMAIN sim.task_states |-> Len(h) + nr + nt + TaskIndex(tid)]]

\* a faulty snapshot that copies the state objects but shares the assigned
\* sets with the live task states
snapshot_sharing_sets(sim, h) ==
    LET copy == CopyStates(sim, h)
    IN [heap |-> [a \in DOMAIN copy.heap |->
                     IF \E tid \in DOMAIN copy.task_states : copy.task_states[tid] = a
                     THEN [copy.heap[a] EXCEPT !.assigned_robot_ids =
                              h[sim.task_states[copy.heap[a].task_id]].assigned_robot_ids]
                     ELSE copy.heap[a]],
        snap |-> [t_now |-> sim.t_now,
                  robot_states |-> copy.robot_states,
                  task_states |-> copy.task_states]]

\* Simulation.snapshot
snapshot(sim, h) ==
    LET copy == CopyStates(sim, h)
    IN [heap |-> copy.heap,
        snap |-> [t_now |-> sim.t_now,
                  robot_states |-> copy.robot_states,
                  task_states |-> copy.task_states]]

\* history[t_now] = snapshot()
RecordSnapshot(sim, h) ==
    LET res == snapshot(sim, h)
    IN [heap |-> res.heap,
        sim |-> [sim EXCEPT !.history =
                    [t \in DOMAIN sim.history \cup {sim.t_now} |->
                        IF t = sim.t_now THEN res.snap ELSE sim.history[t]]]]

\* a faulty tick that records its snapshot under the time before the tick
StepWithStaleKey(sim, h, assignments, exec_order) ==
    LET robot_assignment == robot_assignment_of(assignments)
        updated == UpdateAssignmentStates(sim, 1, robot_assignment, h)
        planned == [rid \in DOMAIN sim.robot_states |->
                       PlannedMove(sim, robot_assignment, updated, rid)]
        planned_moves ==
            IF sim.variant = "discrete" THEN resolve_conflicts_discrete(planned)
            ELSE ConflictLoop(MovingRobots(sim.robot_order, planned),
                              planned, 1, planned)
        done == ExecuteLoop(sim, robot_assignment, planned_moves,
                            sim.t_now + sim.dt, exec_order, updated)
        recorded == RecordSnapshot([sim EXCEPT !.current_assignments = assignments],
                                   done)
    IN [recorded EXCEPT !.sim.t_now = sim.t_now + sim.dt]
           @@ [raised |-> NoException]

\* the plan phase looks up self._task_by_id[task_id] for every robot of
\* robot_states that has an entry in robot_assignment: a task id that is not
\* a key raises KeyError there, after the time advance and the assignment
\* update and before any robot moves or any snapshot is recorded
UnknownTaskLookup(sim, robot_assignment) ==
    \E rid \in DOMAIN sim.robot_states :
        /\ rid \in DOMAIN robot_assignment
        /\ robot_assignment[rid] \notin TaskIds

\* Simulation._step with the assignment list the policy returned; the execute
\* phase visits the robots in exec_order (in the code: sim.robot_order)
StepWith(sim, h, assignments, exec_order) ==
    LET t_now == sim.t_now + sim.dt
        robot_assignment == robot_assignment_of(assignments)
        updated == UpdateAssignmentStates(sim, 1, robot_assignment, h)
        planned == [rid \in DOMAIN sim.robot_states |->
                       PlannedMove(sim, robot_assignment, updated, rid)]
        planned_moves ==
            IF sim.variant = "discrete" THEN resolve_conflicts_discrete(planned)
            ELSE ConflictLoop(MovingRobots(sim.robot_order, planned),
                              planned, 1, planned)
        done == ExecuteLoop(sim, robot_assignment, planned_moves, t_now,
                            exec_order, updated)
        advanced == [sim EXCEPT !.t_now = t_now,
                                !.current_assignments = assignments]
        recorded == RecordSnapshot(advanced, done)
    IN IF UnknownTaskLookup(sim, robot_assignment)
       THEN [sim |-> advanced, heap |-> updated, raised |-> "KeyError"]
       ELSE recorded @@ [raised |-> NoException]

\* Simulation._validate_ready: the exception it raises, if any
_validate_ready(sim) ==
    IF sim.assignment_algorithm.kind = NoPolicy.kind THEN "ValueError"
    ELSE IF sim.pathfinding_algorithm = NoPathfinding THEN "ValueError"
    ELSE NoException

\* Simulation._step
_step(sim, h, assignments) == StepWith(sim, h, assignments, sim.robot_order)

\* a faulty step() that enters the tick without validating: the time advance
\* happens before the unset strategy is called and found not callable
step_unvalidated(sim, h, assignments) ==
    IF _validate_ready(sim) # NoException
    THEN [sim |-> [sim EXCEPT !.t_now = sim.t_now + sim.dt], heap |-> h,
          raised |-> "TypeError"]
    ELSE _step(sim, h, assignments)

\* Simulation.step: the public tick, which fails with a configuration error
\* before touching any state when a strategy is unset
step(sim, h, assignments) ==
    IF _validate_ready(sim) # NoException
    THEN [sim |-> sim, heap |-> h, raised |-> _validate_ready(sim)]
    ELSE _step(sim, h, assignments)

\* all(s.status in terminal for s in self.task_states.values())
AllTerminal(sim, h) ==
    \A tid \in DOMAIN sim.task_states :
        h[sim.task_states[tid]].status \in TerminalStatuses

\* a faulty loop that keeps ticking after every task has become terminal
RECURSIVE RunLoopWithoutBreak(_, _, _, _)
RunLoopWithoutBreak(sim, h, max_steps, assignments) ==
    IF ~(sim.t_now < max_steps)
    THEN [sim |-> sim, heap |-> h, raised |-> NoException]
    ELSE CHOOSE out \in
             {IF res.raised # NoException THEN res
              ELSE RunLoopWithoutBreak(res.sim, res.heap, max_steps, assignments) :
                  res \in {_step(sim, h, assignments)}} : TRUE

\* the loop of Simulation.run, under a policy returning `assignments`; an
\* exception raised by a tick ends the loop (res is the outcome of the tick,
\* bound once)
RECURSIVE RunLoop(_, _, _, _)
RunLoop(sim, h, max_steps, assignments) ==
    IF ~(sim.t_now < max_steps)
    THEN [sim |-> sim, heap |-> h, raised |-> NoException]
    ELSE IF AllTerminal(sim, h)
    THEN [sim |-> sim, heap |-> h, raised |-> NoException]
    ELSE CHOOSE out \in
             {IF res.raised # NoException THEN res
              ELSE RunLoop(res.sim, res.heap, max_steps, assignments) :
                  res \in {_step(sim, h, assignments)}} : TRUE

\* the keys of a history in insertion order (increasing time)
RECURSIVE HistoryKeys(_)
HistoryKeys(ts) ==
    IF ts = {} THEN <<>>
    ELSE LET t == CHOOSE x \in ts : \A y \in ts : x <= y
         IN <<t>> \o HistoryKeys(ts \ {t})

\* a faulty result that reports the makespan of a run that did not complete
SimulationResultAlwaysMakespan(sim, h) ==
    [completed |-> AllTerminal(sim, h),
     tasks_succeeded |->
         Cardinality({tid \in DOMAIN sim.task_states :
                          h[sim.task_states[tid]].status = "done"}),
     tasks_total |-> Len(tasks),
     makespan |-> sim.t_now,
     snapshots |->
         [k \in 1..Cardinality(DOMAIN sim.history) |->
             sim.history[HistoryKeys(DOMAIN sim.history)[k]]]]

\* SimulationResult(...) as Simulation.run builds it
SimulationResult(sim, h) ==
    [completed |-> AllTerminal(sim, h),
     tasks_succeeded |->
         Cardinality({tid \in DOMAIN sim.task_states :
                          h[sim.task_states[tid]].status = "done"}),
     tasks_total |-> Len(tasks),
     makespan |-> IF AllTerminal(sim, h) THEN sim.t_now ELSE NoneTime,
     snapshots |->
         [k \in 1..Cardinality(DOMAIN sim.history) |->
             sim.history[HistoryKeys(DOMAIN sim.history)[k]]]]

-----------------------------------------------------------------------------
(* The greedy assigner *)

\* a faulty inner loop that takes the first unused robot whatever its
\* capabilities
RECURSIVE FirstUnused(_, _, _, _)
FirstUnused(task, robot_list, j, assigned_robots) ==
    IF j > Len(robot_list) THEN 0
    ELSE IF robot_list[j].id \in assigned_robots
    THEN FirstUnused(task, robot_list, j + 1, assigned_robots)
    ELSE j

\* the inner loop `for robot in robots` from index j on: the index of the
\* first robot that is not in assigned_robots and has the required
\* capabilities, 0 when the loop ends without a break
RECURSIVE FirstFit(_, _, _, _)
FirstFit(task, robot_list, j, assigned_robots) ==
    IF j > Len(robot_list) THEN 0
    ELSE IF robot_list[j].id \in assigned_robots
    THEN FirstFit(task, robot_list, j + 1, assigned_robots)
    ELSE IF task.required_capabilities \subseteq robot_list[j].capabilities
    THEN j
    ELSE FirstFit(task, robot_list, j + 1, assigned_robots)

\* the outer loop `for task in tasks` from index i on
RECURSIVE SimpleAssignLoop(_, _, _, _)
SimpleAssignLoop(task_list, robot_list, i, assigned_robots) ==
    IF i > Len(task_list) THEN <<>>
    ELSE LET j == FirstFit(task_list[i], robot_list, 1, assigned_robots)
         IN IF j = 0
            THEN SimpleAssignLoop(task_list, robot_list, i + 1, assigned_robots)
            ELSE <<[task_id |-> task_list[i].id,
                    robot_ids |-> {robot_list[j].id}]>>
                 \o SimpleAssignLoop(task_list, robot_list, i + 1,
                                     assigned_robots \cup {robot_list[j].id})

\* simple_assign(tasks, robots)
simple_assign(task_list, robot_list) ==
    SimpleAssignLoop(task_list, robot_list, 1, {})

-----------------------------------------------------------------------------
(* Construction *)

\* Robot(id, capabilities, speed); the body radius is the class default
Robot(id, capabilities, speed) ==
    [id |-> id, capabilities |-> capabilities, speed |-> speed, radius |-> Radius]

\* Task(id, required_work_time, spatial_constraint, required_capabilities)
Task(id, required_work_time, spatial_constraint, required_capabilities) ==
    [id |-> id, required_work_time |-> required_work_time,
     spatial_constraint |-> spatial_constraint,
     required_capabilities |-> required_capabilities]

\* spatial_constraint = None
NoConstraint == [kind |-> "none", target |-> NonePos]

\* SpatialConstraint(target = Position(cx, cy))
AtPosition(cx, cy) == [kind |-> "position", target |-> Position(cx, cy)]

\* SpatialConstraint(target = ZoneId(zone_id))
AtZone(zone_id) == [kind |-> "zone", target |-> zone_id]

\* Assignment(task_id, robot_ids)
Assignment(task_id, robot_ids) == [task_id |-> task_id, robot_ids |-> robot_ids]

\* RobotState(robot_id, position, battery_level = 1.0)
RobotState(robot_id, position) ==
    [robot_id |-> robot_id, position |-> position, battery_level |-> 10000]

\* TaskState(task_id): the defaults; its assigned set lives at `address`
TaskState(task_id, address) ==
    [task_id |-> task_id, status |-> "unassigned", assigned_robot_ids |-> address,
     work_done |-> 0, started_at |-> NoneTime, completed_at |-> NoneTime]

\* the default dt of a Simulation
DefaultDt == 1

\* Simulation(...) and its __post_init__: the initial snapshot is recorded
\* under t_now in a history of its own.  `variant` is the engine variant:
\* "continuous" is the engine of simulation.py, "discrete" the discrete-cell
\* variant of the same orchestration
Simulation(variant, robot_states, robot_order, task_states, assignment_algorithm, pathfinding_algorithm, t_now, dt, h) ==
    RecordSnapshot([variant |-> variant,
                    robot_states |-> robot_states,
                    robot_order |-> robot_order,
                    task_states |-> task_states,
                    assignment_algorithm |-> assignment_algorithm,
                    pathfinding_algorithm |-> pathfinding_algorithm,
                    current_assignments |-> <<>>,
                    t_now |-> t_now,
                    dt |-> dt,
                    history |-> <<>>],
                   h)

AnyPolicy == [kind |-> "any", fixed |-> <<>>]

FixedPolicy(assignments) == [kind |-> "fixed", fixed |-> assignments]

\* a faulty fork_sim that hands the live state objects to the fork
fork_sim_shallow(live, assignments, h) ==
    Simulation(live.variant, live.robot_states, live.robot_order, live.task_states,
               FixedPolicy(assignments), live.pathfinding_algorithm,
               live.t_now, DefaultDt, h)

\* fork_sim(assignments): copies of the live robot and task states, the live
\* clock, the default dt, a history of its own, and a policy that returns
\* the given list at every tick
fork_sim(live, assignments, h) ==
    LET copy == CopyStates(live, h)
    IN Simulation(live.variant, copy.robot_states, live.robot_order, copy.task_states,
                  FixedPolicy(assignments), live.pathfinding_algorithm,
                  live.t_now, DefaultDt, copy.heap)

-----------------------------------------------------------------------------
(* The inputs: small scenes over which the engine is run *)

AllCaps == {"vision", "manipulation"}

\* a 3 x 3 grid with a wall of two obstacles in the middle column, open at
\* the bottom row; one walk-to task behind the wall, one in the gap
SceneDetour ==
    [environment |-> [width |-> 3, height |-> 3,
                      obstacles |-> {Position(1, 0), Position(1, 1)},
                      zones |-> <<>>],
     robots |-> <<Robot(1, AllCaps, 10), Robot(2, AllCaps, 10)>>,
     tasks |-> <<Task(1, 1, AtPosition(2, 0), {}), Task(2, 2, AtPosition(1, 2), {})>>,
     positions |-> <<Position(0, 0), Position(2, 2)>>,
     robot_order |-> <<1, 2>>,
     dt |-> 1]

\* an open 3 x 1 corridor, the robots at its ends; a task on the middle cell
\* and a task without spatial constraint
SceneHeadOn ==
    [environment |-> [width |-> 3, height |-> 1, obstacles |-> {}, zones |-> <<>>],
     robots |-> <<Robot(1, AllCaps, 10), Robot(2, AllCaps, 10)>>,
     tasks |-> <<Task(1, 1, AtPosition(1, 0), {}), Task(2, 2, NoConstraint, {})>>,
     positions |-> <<Position(0, 0), Position(2, 0)>>,
     robot_order |-> <<2, 1>>,
     dt |-> 1]

\* a 2 x 2 grid with a two-cell zone; one zone task and one task naming a
\* zone the environment does not have; dt = 2
SceneZone ==
    [environment |-> [width |-> 2, height |-> 2, obstacles |-> {},
                      zones |-> <<<<Position(1, 0), Position(1, 1)>>>>],
     robots |-> <<Robot(1, AllCaps, 10), Robot(2, AllCaps, 10)>>,
     tasks |-> <<Task(1, 3, AtZone(1), {}), Task(2, 1, AtZone(2), {})>>,
     positions |-> <<Position(0, 0), Position(1, 1)>>,
     robot_order |-> <<1, 2>>,
     dt |-> 2]

Scenes == {SceneDetour, SceneHeadOn, SceneZone}

\* one robot of speed 1 on an open 3 x 2 grid and one task, as the
\* work-completion, idle and no-constraint tests build them
SoloScene(start, constraint, required_work_time, dt) ==
    [environment |-> [width |-> 3, height |-> 2, obstacles |-> {}, zones |-> <<>>],
     robots |-> <<Robot(1, AllCaps, 10)>>,
     tasks |-> <<Task(1, required_work_time, constraint, {})>>,
     positions |-> <<start>>,
     robot_order |-> <<1>>,
     dt |-> dt]

\* every start cell, every target cell or no spatial constraint, every
\* required_work_time up to the tick bound, dt = 1 and dt = 2
SoloScenes ==
    {SoloScene(Position(sx, sy), constraint, w, dt) :
         sx \in 0..2, sy \in 0..1,
         constraint \in {NoConstraint} \cup {AtPosition(x, y) : x \in 0..2, y \in 0..1},
         w \in 1..MaxTick, dt \in {1, 2}}

\* two robots side by side and two tasks without spatial constraint, with
\* the capabilities each robot has and each task requires
CapScene(robot_caps, task_caps, robot_list_order) ==
    [environment |-> [width |-> 2, height |-> 1, obstacles |-> {}, zones |-> <<>>],
     robots |-> [j \in 1..2 |->
                    Robot(robot_list_order[j], robot_caps[robot_list_order[j]], 10)],
     tasks |-> <<Task(1, 2, NoConstraint, task_caps[1]),
                 Task(2, 1, NoConstraint, task_caps[2])>>,
     positions |-> [j \in 1..2 |-> Position(robot_list_order[j] - 1, 0)],
     robot_order |-> <<1, 2>>,
     dt |-> 1]

\* every combination of capabilities, the robots list in either order
CapScenes ==
    {CapScene(robot_caps, task_caps, robot_list_order) :
         robot_caps \in [1..2 -> SUBSET AllCaps],
         task_caps \in [1..2 -> SUBSET AllCaps],
         robot_list_order \in {<<1, 2>>, <<2, 1>>}}

\* the lists an assignment policy may return in a tick: every task with a
\* non-empty set of robots, the tasks in list order or in reverse; a robot
\* may be named under several tasks
ProposalList(f) ==
    LET RECURSIVE Build(_)
        Build(i) ==
            IF i > Len(tasks) THEN <<>>
            ELSE IF f[tasks[i].id] = {} THEN Build(i + 1)
            ELSE <<Assignment(tasks[i].id, f[tasks[i].id])>> \o Build(i + 1)
    IN Build(1)

Reverse(seq) == [i \in DOMAIN seq |-> seq[Len(seq) + 1 - i]]

AssignmentLists ==
    LET forward == {ProposalList(f) : f \in [TaskIds -> SUBSET RobotIds]}
    IN forward \cup {Reverse(l) : l \in forward}

\* a faulty strategy call that does not consult the bound strategy
PolicyOutputsUnbound(sim) == AssignmentLists

\* the lists of one Assignment a policy can return when nothing restricts
\* the ids it names: task ids and robot ids of the scene and one id of each
\* kind that no task and no robot has
UncheckedLists ==
    {<<Assignment(tid, rids)>> :
         tid \in TaskIds \cup {Len(tasks) + 1},
         rids \in SUBSET (RobotIds \cup {Len(robots) + 1})}

\* the policy simple_assign
SimplePolicy == [kind |-> "simple"]

\* a policy that may return any list, ids that do not exist included
UncheckedPolicy == [kind |-> "unchecked"]

\* a faulty binding of simple_assign that hands it the unfinished tasks only,
\* so that a robot whose task is done is given another task
PolicyOutputsSkippingDone(sim) ==
    LET Open(task) == heap[sim.task_states[task.id]].status \notin TerminalStatuses
    IN IF sim.assignment_algorithm.kind = "fixed"
       THEN {sim.assignment_algorithm.fixed}
       ELSE IF sim.assignment_algorithm.kind = "unchecked"
       THEN UncheckedLists
       ELSE IF sim.assignment_algorithm.kind = "simple"
       THEN {simple_assign(SelectSeq(tasks, Open), robots)}
       ELSE AssignmentLists

\* what the engine's assignment_algorithm may return when called
PolicyOutputs(sim) ==
    IF sim.assignment_algorithm.kind = "fixed"
    THEN {sim.assignment_algorithm.fixed}
    ELSE IF sim.assignment_algorithm.kind = "unchecked"
    THEN UncheckedLists
    ELSE IF sim.assignment_algorithm.kind = "simple"
    THEN {simple_assign(tasks, robots)}
    ELSE AssignmentLists

-----------------------------------------------------------------------------
(* Observation: the values behind the addresses *)

ObserveRobotStates(robot_states, h) ==
    [rid \in DOMAIN robot_states |-> h[robot_states[rid]]]

ObserveTaskStates(task_states, h) ==
    [tid \in DOMAIN task_states |->
        [h[task_states[tid]] EXCEPT !.assigned_robot_ids = h[@]]]

ObserveSnapshot(snap, h) ==
    [t_now |-> snap.t_now,
     robot_states |-> ObserveRobotStates(snap.robot_states, h),
     task_states |-> ObserveTaskStates(snap.task_states, h)]

ObserveHistory(sim, h) ==
    [t \in DOMAIN sim.history |-> ObserveSnapshot(sim.history[t], h)]

ObserveSim(sim, h) ==
    [t_now |-> sim.t_now,
     current_assignments |-> sim.current_assignments,
     robot_states |-> ObserveRobotStates(sim.robot_states, h),
     task_states |-> ObserveTaskStates(sim.task_states, h),
     history |-> ObserveHistory(sim, h)]

ObserveResult(result, h) ==
    [result EXCEPT !.snapshots = [k \in DOMAIN @ |-> ObserveSnapshot(@[k], h)]]

-----------------------------------------------------------------------------
(* The state machine *)

EngineNames == {"live", "fork", "twin"}

NoResult == [absent |-> TRUE]

\* the engine built from a scene, as the loader and the tests build it: the
\* RobotState objects, the assigned sets and the TaskState objects are
\* allocated first
SceneSimulation(scene, variant, assignment_algorithm, h) ==
    LET nr == Len(scene.robots)
        nt == Len(scene.tasks)
    IN Simulation(
           variant,
           [rid \in {scene.robots[k].id : k \in 1..nr} |->
               Len(h) + RobotIndex(scene.robot_order, rid)],
           scene.robot_order,
           [tid \in {scene.tasks[i].id : i \in 1..nt} |->
               Len(h) + nr + nt
               + (CHOOSE i \in 1..nt : scene.tasks[i].id = tid)],
           assignment_algorithm, "bfs", 0, scene.dt,
           h \o [k \in 1..nr |->
                    RobotState(scene.robot_order[k],
                               scene.positions[CHOOSE j \in 1..nr :
                                   scene.robots[j].id = scene.robot_order[k]])]
             \o [i \in 1..nt |-> {}]
             \o [i \in 1..nt |-> TaskState(scene.tasks[i].id, Len(h) + nr + i)])

InitScene(scene) ==
    /\ environment = scene.environment
    /\ robots = scene.robots
    /\ tasks = scene.tasks
    /\ results = [e \in EngineNames |-> NoResult]
    /\ raised = [e \in EngineNames |-> NoException]
    /\ calls = 0

\* one engine, under a policy that may return any list at any tick
Init ==
    \E scene \in Scenes :
        /\ InitScene(scene)
        /\ LET built == SceneSimulation(scene, "continuous", AnyPolicy, <<>>)
           IN /\ sims = [e \in EngineNames |-> IF e = "live" THEN built.sim ELSE NoSim]
              /\ heap = built.heap

\* the ticks an engine has performed since its construction
Ticks(sim) == Cardinality(DOMAIN sim.history) - 1

\* one tick of engine e; an engine whose tick raised is not ticked again
Step(e) ==
    /\ sims[e] # NoSim
    /\ Ticks(sims[e]) < MaxTick
    /\ raised[e] = NoException
    /\ \E assignments \in PolicyOutputs(sims[e]) :
           LET res == _step(sims[e], heap, assignments)
           IN /\ sims' = [sims EXCEPT ![e] = res.sim]
              /\ heap' = res.heap
              /\ raised' = [raised EXCEPT ![e] = res.raised]
    /\ UNCHANGED <<environment, robots, tasks, results, calls>>

Next == Step("live")

Spec == Init /\ [][Next]_vars

\* a direct call task.set_assignment(state, robot_ids) on a live task state
CallSetAssignment ==
    /\ calls < MaxCalls
    /\ \E tid \in TaskIds : \E robot_ids \in SUBSET RobotIds :
           heap' = set_assignment(sims["live"].task_states[tid], robot_ids, heap)
    /\ calls' = calls + 1
    /\ UNCHANGED <<environment, robots, tasks, sims, results, raised>>

\* a direct call task.apply_work(state, dt, t_now) on a live task state
CallApplyWork ==
    /\ calls < MaxCalls
    /\ \E tid \in TaskIds :
           heap' = apply_work(_task_by_id(tid), sims["live"].task_states[tid],
                              sims["live"].dt, sims["live"].t_now, heap)
    /\ calls' = calls + 1
    /\ UNCHANGED <<environment, robots, tasks, sims, results, raised>>

\* the engine under a policy returning one fixed list
InitFixed ==
    \E scene \in Scenes :
        /\ InitScene(scene)
        /\ \E assignments \in AssignmentLists :
               LET built == SceneSimulation(scene, "continuous",
                                            FixedPolicy(assignments), <<>>)
               IN /\ sims = [e \in EngineNames |->
                                IF e = "live" THEN built.sim ELSE NoSim]
                  /\ heap = built.heap

\* ticks of the engine interleaved with direct calls of the Task operations
NextApi == Step("live") \/ CallSetAssignment \/ CallApplyWork

SpecApi == InitFixed /\ [][NextApi]_vars

\* fork_sim(assignments), once per behaviour
Fork ==
    /\ sims["fork"] = NoSim
    /\ \E assignments \in AssignmentLists :
           LET res == fork_sim(sims["live"], assignments, heap)
           IN /\ sims' = [sims EXCEPT !["fork"] = res.sim]
              /\ heap' = res.heap
    /\ UNCHANGED <<environment, robots, tasks, results, raised, calls>>

\* the live engine and a fork of it, ticking independently
NextFork == Step("live") \/ Fork \/ Step("fork")

SpecFork == InitFixed /\ [][NextFork]_vars

\* sim.run(max_steps), once per engine, on an engine that has ticked at most
\* `latest` times: _validate_ready, the loop, the SimulationResult
RunAt(e, latest) ==
    /\ sims[e] # NoSim
    /\ results[e] = NoResult
    /\ Ticks(sims[e]) <= latest
    /\ IF _validate_ready(sims[e]) # NoException
       THEN /\ raised' = [raised EXCEPT ![e] = _validate_ready(sims[e])]
            /\ UNCHANGED <<sims, heap, results>>
       ELSE \E max_steps \in 0..MaxTick :
            \E assignments \in PolicyOutputs(sims[e]) :
               LET out == RunLoop(sims[e], heap, max_steps, assignments)
               IN /\ sims' = [sims EXCEPT ![e] = out.sim]
                  /\ heap' = out.heap
                  /\ raised' = [raised EXCEPT ![e] = out.raised]
                  /\ results' =
                         IF out.raised # NoException THEN results
                         ELSE [results EXCEPT ![e] =
                                  [max_steps |-> max_steps,
                                   called_at |-> sims[e].t_now,
                                   result |-> SimulationResult(out.sim,
                                                               out.heap)]]
    /\ UNCHANGED <<environment, robots, tasks, calls>>

\* sim.run(max_steps) on an engine that has ticked at most MaxRunStart times
Run(e) == RunAt(e, MaxRunStart)

\* two engines built from equal inputs, with the same fixed-list policy
InitTwin ==
    \E scene \in Scenes :
        /\ InitScene(scene)
        /\ \E assignments \in AssignmentLists :
               LET first == SceneSimulation(scene, "continuous",
                                            FixedPolicy(assignments), <<>>)
                   second == SceneSimulation(scene, "continuous",
                                             FixedPolicy(assignments), first.heap)
               IN /\ sims = [e \in EngineNames |->
                                IF e = "live" THEN first.sim
                                ELSE IF e = "twin" THEN second.sim
                                ELSE NoSim]
                  /\ heap = second.heap

\* ticks of one engine and one call of run(max_steps) at any point
NextRun == Step("live") \/ RunAt("live", MaxTick)

SpecRun == InitFixed /\ [][NextRun]_vars

\* one engine under a policy that may name ids that do not exist
InitUnchecked ==
    \E scene \in Scenes :
        /\ InitScene(scene)
        /\ LET built == SceneSimulation(scene, "continuous", UncheckedPolicy, <<>>)
           IN /\ sims = [e \in EngineNames |->
                            IF e = "live" THEN built.sim ELSE NoSim]
              /\ heap = built.heap

SpecUnchecked == InitUnchecked /\ [][Next]_vars

\* one engine whose pathfinding strategy breaks the contract
InitRogue ==
    \E scene \in Scenes :
        /\ InitScene(scene)
        /\ \E pathfinding \in {"jump", "step_up"} :
               LET built == SceneSimulation(scene, "continuous", AnyPolicy, <<>>)
               IN /\ sims = [e \in EngineNames |->
                                IF e = "live"
                                THEN [built.sim EXCEPT
                                          !.pathfinding_algorithm = pathfinding]
                                ELSE NoSim]
                  /\ heap = built.heap

SpecRogue == InitRogue /\ [][Next]_vars

\* one robot, one task, the policy of the tests: the robot on the task
InitSolo ==
    \E scene \in SoloScenes :
        /\ InitScene(scene)
        /\ LET built == SceneSimulation(scene, "continuous",
                                        FixedPolicy(<<Assignment(1, {1})>>), <<>>)
           IN /\ sims = [e \in EngineNames |->
                            IF e = "live" THEN built.sim ELSE NoSim]
              /\ heap = built.heap

\* the single-robot engine ticked by step() or run from the start
NextSolo == Step("live") \/ RunAt("live", 0)

SpecSolo == InitSolo /\ [][NextSolo]_vars

\* robots and tasks with capabilities, under simple_assign or under a fixed
\* override list
InitCaps ==
    \E scene \in CapScenes :
        /\ InitScene(scene)
        /\ \E policy \in {SimplePolicy} \cup {FixedPolicy(l) : l \in AssignmentLists} :
               LET built == SceneSimulation(scene, "continuous", policy, <<>>)
               IN /\ sims = [e \in EngineNames |->
                                IF e = "live" THEN built.sim ELSE NoSim]
                  /\ heap = built.heap

SpecCaps == InitCaps /\ [][Next]_vars

\* sim.step() on engine e, whatever its configuration
CallStep(e) ==
    /\ sims[e] # NoSim
    /\ Ticks(sims[e]) < MaxTick
    /\ \E assignments \in IF _validate_ready(sims[e]) = NoException
                           THEN PolicyOutputs(sims[e]) ELSE {<<>>} :
           LET res == step(sims[e], heap, assignments)
           IN /\ sims' = [sims EXCEPT ![e] = res.sim]
              /\ heap' = res.heap
              /\ raised' = [raised EXCEPT ![e] = res.raised]
    /\ UNCHANGED <<environment, robots, tasks, results, calls>>

\* an engine whose strategies are each either bound or left at None, as
\* the test leaves pathfinding_algorithm
InitConfig ==
    \E scene \in Scenes :
        /\ InitScene(scene)
        /\ \E policy \in {NoPolicy} \cup {FixedPolicy(l) : l \in AssignmentLists} :
           \E pathfinding \in {"bfs", NoPathfinding} :
               LET built == SceneSimulation(scene, "continuous", policy, <<>>)
               IN /\ sims = [e \in EngineNames |->
                                IF e = "live"
                                THEN [built.sim EXCEPT
                                          !.pathfinding_algorithm = pathfinding]
                                ELSE NoSim]
                  /\ heap = built.heap

\* step() and run() called on engines of every configuration
NextConfig == CallStep("live") \/ RunAt("live", MaxTick)

SpecConfig == InitConfig /\ [][NextConfig]_vars

NextTwin == Step("live") \/ Step("twin") \/ Run("live") \/ Run("twin")

SpecTwin == InitTwin /\ [][NextTwin]_vars

\* the discrete-cell variant of the engine, under a policy that may return
\* any list at any tick
InitDiscrete ==
    \E scene \in Scenes :
        /\ InitScene(scene)
        /\ LET built == SceneSimulation(scene, "discrete", AnyPolicy, <<>>)
           IN /\ sims = [e \in EngineNames |-> IF e = "live" THEN built.sim ELSE NoSim]
              /\ heap = built.heap

SpecDiscrete == InitDiscrete /\ [][Next]_vars

\* the positions handed to add_obstacle: the two cells of the grid, a point
\* inside the first cell, and a cell to the right of the grid
EnvPositions == {Position(0, 0), Position(1, 0), <<Scale \div 2, 0>>, Position(2, 0)}

\* the cell lists of the zones handed to add_zone
EnvCellLists ==
    {<<>>, <<Position(0, 0)>>, <<Position(1, 0)>>,
     <<Position(0, 0), Position(1, 0)>>, <<Position(2, 0)>>,
     <<Position(1, 0), Position(2, 0)>>}

\* the zones handed to add_zone
EnvZones == {Zone(id, cells) : id \in 1..3, cells \in EnvCellLists}

\* Environment.__init__: an empty grid without zones and obstacles
Environment(width, height) ==
    [width |-> width, height |-> height, obstacles |-> {}, zones |-> <<>>]

\* Environment(2, 1), and no engine built on it
InitEnv ==
    /\ environment = Environment(2, 1)
    /\ robots = <<>>
    /\ tasks = <<>>
    /\ sims = [e \in EngineNames |-> NoSim]
    /\ heap = <<>>
    /\ results = [e \in EngineNames |-> NoResult]
    /\ raised = [e \in {"environment"} |-> NoException]
    /\ calls = 0

\* a call environment.add_obstacle(pos)
AddObstacle ==
    /\ calls < MaxEnvCalls
    /\ \E pos \in EnvPositions :
           LET res == add_obstacle(environment, pos)
           IN /\ environment' = res.env
              /\ raised' = [raised EXCEPT !["environment"] = res.raised]
    /\ calls' = calls + 1
    /\ UNCHANGED <<robots, tasks, sims, heap, results>>

\* a call environment.add_zone(zone)
AddZone ==
    /\ calls < MaxEnvCalls
    /\ \E zone \in EnvZones :
           LET res == add_zone(environment, zone)
           IN /\ environment' = res.env
              /\ raised' = [raised EXCEPT !["environment"] = res.raised]
    /\ calls' = calls + 1
    /\ UNCHANGED <<robots, tasks, sims, heap, results>>

NextEnv == AddObstacle \/ AddZone

SpecEnv == InitEnv /\ [][NextEnv]_vars

\* the cells of a width x height grid
GridCells(width, height) ==
    {Position(x, y) : x \in 0..(width - 1), y \in 0..(height - 1)}

\* the 3 x 3 grids with at most two obstacles
BfsEnvironments ==
    {[Environment(3, 3) EXCEPT !.obstacles = obs] :
        obs \in {o \in SUBSET GridCells(3, 3) : Cardinality(o) <= 2}}

\* the goals handed to the pathfinder: the cells of the grid and one cell
\* to the right of it
BfsGoals == GridCells(3, 3) \cup {Position(3, 1)}

\* the occupied sets handed to the pathfinder: the cells of up to one other
\* robot, never the caller's own cell
BfsOccupied(start) ==
    {occ \in SUBSET (GridCells(3, 3) \ {start}) : Cardinality(occ) <= 1}

\* an environment, and no pathfinder call made yet
InitBfs ==
    /\ environment \in BfsEnvironments
    /\ robots = <<>>
    /\ tasks = <<>>
    /\ sims = [e \in EngineNames |-> NoSim]
    /\ heap = <<>>
    /\ results = [e \in {"pathfinder"} |-> NoResult]
    /\ raised = [e \in {"pathfinder"} |-> NoException]
    /\ calls = 0

\* a call bfs_pathfind(environment, start, goal, occupied)
CallBfs ==
    /\ results["pathfinder"] = NoResult
    /\ \E start \in GridCells(3, 3) : \E goal \in BfsGoals :
           \E occupied \in BfsOccupied(start) :
               results' = [results EXCEPT !["pathfinder"] =
                   [start |-> start, goal |-> goal, occupied |-> occupied,
                    step |-> bfs_pathfind(environment, start, goal, occupied)]]
    /\ calls' = calls + 1
    /\ UNCHANGED <<environment, robots, tasks, sims, heap, raised>>

NextBfs == CallBfs

SpecBfs == InitBfs /\ [][NextBfs]_vars

\* the starts handed to astar_pathfind: the cells of the grid and two
\* positions in the middle of a cell
AstarStarts ==
    GridCells(3, 3) \cup {<<Scale \div 2, Scale \div 2>>,
                          <<Scale + Scale \div 2, Scale \div 2>>}

\* the occupied sets handed to astar_pathfind: up to one other robot, in
\* another cell than the caller
AstarOccupied(start) ==
    {occ \in SUBSET (GridCells(3, 3) \ {Position(Cell(start)[1], Cell(start)[2])}) :
        Cardinality(occ) <= 1}

\* a call astar_pathfind(environment, start, goal, occupied)
CallAstar ==
    /\ results["pathfinder"] = NoResult
    /\ \E start \in AstarStarts : \E goal \in GridCells(3, 3) :
           \E occupied \in AstarOccupied(start) :
               results' = [results EXCEPT !["pathfinder"] =
                   [start |-> start, goal |-> goal, occupied |-> occupied,
                    step |-> astar_pathfind(environment, start, goal, occupied)]]
    /\ calls' = calls + 1
    /\ UNCHANGED <<environment, robots, tasks, sims, heap, raised>>

NextAstar == CallAstar

SpecAstar == InitBfs /\ [][NextAstar]_vars

\* one robot on an open 3 x 2 grid with one zone, and a task to be done in
\* that zone
ZoneScene(start, zone_cells) ==
    [environment |-> [Environment(3, 2) EXCEPT !.zones = <<zone_cells>>],
     robots |-> <<Robot(1, AllCaps, 10)>>,
     tasks |-> <<Task(1, 2, AtZone(1), {})>>,
     positions |-> <<start>>,
     robot_order |-> <<1>>,
     dt |-> 1]

\* the robot starts on a cell or in the middle of one; the zone is a column,
\* the same column listed from below, or a single corner cell
ZoneScenes ==
    {ZoneScene(start, zone_cells) :
         start \in GridCells(3, 2) \cup {<<16, 6>>, <<13, 3>>, <<5, 5>>, <<24, 12>>},
         zone_cells \in {<<Position(1, 0), Position(1, 1)>>,
                         <<Position(1, 1), Position(1, 0)>>,
                         <<Position(2, 1)>>}}

\* the continuous engine with either reference pathfinder, the robot assigned
\* to the zone task on every tick
InitZone ==
    \E scene \in ZoneScenes :
        /\ InitScene(scene)
        /\ \E pathfinding \in {"bfs", "astar"} :
               LET built == SceneSimulation(scene, "continuous",
                                            FixedPolicy(<<Assignment(1, {1})>>), <<>>)
               IN /\ sims = [e \in EngineNames |->
                                IF e = "live"
                                THEN [built.sim EXCEPT
                                          !.pathfinding_algorithm = pathfinding]
                                ELSE NoSim]
                  /\ heap = built.heap

SpecZone == InitZone /\ [][Next]_vars

\* Simulation(...) on a scene whose task_states are given: statuses[i] is the
\* status the i-th task starts with, the other fields at their defaults
SeededSimulation(scene, variant, assignment_algorithm, statuses) ==
    LET nr == Len(scene.robots)
        nt == Len(scene.tasks)
    IN Simulation(
           variant,
           [rid \in {scene.robots[k].id : k \in 1..nr} |->
               RobotIndex(scene.robot_order, rid)],
           scene.robot_order,
           [tid \in {scene.tasks[i].id : i \in 1..nt} |->
               nr + nt + (CHOOSE i \in 1..nt : scene.tasks[i].id = tid)],
           assignment_algorithm, "bfs", 0, scene.dt,
           [k \in 1..nr |->
               RobotState(scene.robot_order[k],
                          scene.positions[CHOOSE j \in 1..nr :
                              scene.robots[j].id = scene.robot_order[k]])]
             \o [i \in 1..nt |-> {}]
             \o [i \in 1..nt |->
                    [TaskState(scene.tasks[i].id, nr + i) EXCEPT
                        !.status = statuses[i]]])

\* the engine on a scene in which any of the tasks may start out failed
InitSeeded ==
    \E scene \in Scenes :
        /\ InitScene(scene)
        /\ \E statuses \in [1..Len(scene.tasks) -> {"unassigned", "failed"}] :
               LET built == SeededSimulation(scene, "continuous", AnyPolicy, statuses)
               IN /\ sims = [e \in EngineNames |->
                                IF e = "live" THEN built.sim ELSE NoSim]
                  /\ heap = built.heap

SpecSeeded == InitSeeded /\ [][Next]_vars

-----------------------------------------------------------------------------
(* Collision, obstacle and bounds safety of the tick *)

\* the current position of a robot of the live engine
LivePosition(rid) == heap[sims["live"].robot_states[rid]].position

\* the position of a robot of the live engine at construction
StartPosition(rid) ==
    heap[sims["live"].history[0].robot_states[rid]].position

\* the two positions are those of cells next to each other
Adjacent(p, q) == Distance2(p, q) = Scale * Scale

\* the position lies inside the unit square of an obstacle cell
InsideObstacle(position) ==
    \E o \in environment.obstacles :
        /\ o[1] <= position[1] /\ position[1] < o[1] + Scale
        /\ o[2] <= position[2] /\ position[2] < o[2] + Scale

\* the position lies on the grid: 0 <= x < width and 0 <= y < height
InsideGrid(position) ==
    /\ 0 <= position[1] /\ position[1] < environment.width * Scale
    /\ 0 <= position[2] /\ position[2] < environment.height * Scale

RobotsStayInBounds ==
    \A rid \in RobotIds : InsideGrid(LivePosition(rid))

-----------------------------------------------------------------------------
(* Task lifecycle *)

\* the current state of a task of the live engine
LiveTask(tid) == heap[sims["live"].task_states[tid]]

\* the state of a task of the live engine after the transition
LiveTaskNext(tid) == heap'[sims'["live"].task_states[tid]]

\* C4: once a task is done or failed, no later tick and no later call of
\* set_assignment or apply_work changes its status or its completed_at
TerminalStaysTerminal ==
    [][\A tid \in TaskIds :
           LiveTask(tid).status \in TerminalStatuses
           => /\ LiveTaskNext(tid).status = LiveTask(tid).status
              /\ LiveTaskNext(tid).completed_at = LiveTask(tid).completed_at]_vars

\* a task completed at an earlier time has since been worked on by a direct
\* call and named again by the tick's assignment
TerminalTaskOperatedOn ==
    \E tid \in TaskIds :
        /\ LiveTask(tid).status = "done"
        /\ LiveTask(tid).completed_at < sims["live"].t_now
        /\ calls > 0
        /\ \E i \in DOMAIN sims["live"].current_assignments :
               sims["live"].current_assignments[i].task_id = tid

\* the position of a status in the lifecycle
StatusRank(status) ==
    CASE status = "unassigned" -> 0
      [] status = "assigned" -> 1
      [] status = "in_progress" -> 2
      [] OTHER -> 3

\* the status of a task in the snapshot recorded at time t
SnapshotStatus(t, tid) == heap[sims["live"].history[t].task_states[tid]].status

\* the times of the snapshots that have a next snapshot
SnapshotTimesWithNext ==
    {t \in DOMAIN sims["live"].history :
         t + sims["live"].dt \in DOMAIN sims["live"].history}

\* from the snapshot at t to the next, the status stays or moves forward
MovesForward(t, tid) ==
    LET before == SnapshotStatus(t, tid)
        after == SnapshotStatus(t + sims["live"].dt, tid)
    IN before = after \/ StatusRank(before) < StatusRank(after)

\* from the snapshot at t to the next, an assigned task is back to unassigned
Released(t, tid) ==
    /\ SnapshotStatus(t, tid) = "assigned"
    /\ SnapshotStatus(t + sims["live"].dt, tid) = "unassigned"

\* C5, as stated: from one recorded snapshot to the next a task's status
\* stays the same or moves forward along unassigned, assigned, in_progress,
\* done or failed; it never moves back
StatusNeverMovesBack ==
    \A t \in SnapshotTimesWithNext : \A tid \in TaskIds : MovesForward(t, tid)

\* C5, amended: from one recorded snapshot to the next a task's status stays
\* the same, moves forward along the lifecycle, or goes from assigned back
\* to unassigned; it never moves back from in_progress, done or failed
StatusMovesBackOnlyByRelease ==
    \A t \in SnapshotTimesWithNext : \A tid \in TaskIds :
        MovesForward(t, tid) \/ Released(t, tid)

\* a task assigned in one snapshot is unassigned in the next
TaskReleased ==
    \E t \in SnapshotTimesWithNext : \E tid \in TaskIds : Released(t, tid)

-----------------------------------------------------------------------------
(* History and snapshots *)

\* C6: for an engine constructed at t = 0 with dt = 1, the history holds
\* exactly one snapshot for each tick 0..t_now, the i-th having t_now = i,
\* the first of them recorded at construction
HistoryOnePerTick ==
    sims["live"].dt = 1
    => /\ DOMAIN sims["live"].history = 0..sims["live"].t_now
       /\ \A i \in DOMAIN sims["live"].history : sims["live"].history[i].t_now = i

\* an engine with dt = 1 has ticked at least twice
TickedTwiceWithUnitDt ==
    sims["live"].dt = 1 /\ sims["live"].t_now >= 2

\* C7: a recorded snapshot never changes: not by later ticks, not by later
\* mutation of the live robot and task states, the assigned sets included
SnapshotsNeverChange ==
    [][\A t \in DOMAIN sims["live"].history :
           /\ t \in DOMAIN sims'["live"].history
           /\ ObserveSnapshot(sims'["live"].history[t], heap')
                  = ObserveSnapshot(sims["live"].history[t], heap)]_vars

\* the live task states were mutated by a direct call after the last
\* snapshot was recorded, and an earlier snapshot shows other robot states
LiveMutatedAfterSnapshot ==
    /\ sims["live"].t_now > 0
    /\ calls > 0
    /\ ObserveTaskStates(sims["live"].task_states, heap)
           # ObserveTaskStates(sims["live"].history[sims["live"].t_now].task_states, heap)
    /\ ObserveRobotStates(sims["live"].robot_states, heap)
           # ObserveRobotStates(sims["live"].history[0].robot_states, heap)

-----------------------------------------------------------------------------
(* Determinism and isolation *)

ForkLeavesLiveUnchanged ==
    [][sims'["fork"] # sims["fork"]
       => ObserveSim(sims'["live"], heap') = ObserveSim(sims["live"], heap)]_vars

\* the fork has ticked and its robot and task states differ from the live ones
ForkDiverged ==
    /\ sims["fork"] # NoSim
    /\ Ticks(sims["fork"]) >= 1
    /\ ObserveRobotStates(sims["fork"].robot_states, heap)
           # ObserveRobotStates(sims["live"].robot_states, heap)
    /\ ObserveTaskStates(sims["fork"].task_states, heap)
           # ObserveTaskStates(sims["live"].task_states, heap)

\* the orders in which an execute phase could visit the robots
ExecuteOrders(sim) ==
    {order \in [1..Len(sim.robot_order) -> DOMAIN sim.robot_states] :
         \A i \in DOMAIN order : \A j \in DOMAIN order :
             i # j => order[i] # order[j]}

\* the robot and task states after a tick
StatesAfter(res) ==
    [robot_states |-> ObserveRobotStates(res.sim.robot_states, res.heap),
     task_states |-> ObserveTaskStates(res.sim.task_states, res.heap)]

\* C10: the order in which the execute phase of a tick processes the robots
\* does not change the robot states or the task states after the tick, for
\* every assignment, several robots on one task included
ExecuteOrderIrrelevant ==
    \A assignments \in AssignmentLists : \A order \in ExecuteOrders(sims["live"]) :
        StatesAfter(StepWith(sims["live"], heap, assignments, order))
            = StatesAfter(_step(sims["live"], heap, assignments))

-----------------------------------------------------------------------------
(* The result of run *)

\* this step is a call of run on the live engine that returned a result
RunReturned == results["live"] = NoResult /\ results'["live"] # NoResult

\* the tasks whose live state has the given status after this step
TasksWithStatusNext(statuses) ==
    {i \in 1..Len(tasks) : LiveTaskNext(tasks[i].id).status \in statuses}

\* C11: when run(max_steps) returns, completed is true exactly when every
\* task is done or failed at that moment, makespan is t_now when completed
\* and None otherwise, tasks_succeeded is the number of tasks whose status is
\* done, tasks_total is the number of tasks, and snapshots is the history in
\* tick order
RunResultDescribesFinalState ==
    [][RunReturned =>
         LET r == results'["live"].result
             history == sims'["live"].history
         IN /\ r.completed =
                   (TasksWithStatusNext({"done", "failed"}) = 1..Len(tasks))
            /\ r.makespan = IF r.completed THEN sims'["live"].t_now
                            ELSE NoneTime
            /\ r.tasks_succeeded = Cardinality(TasksWithStatusNext({"done"}))
            /\ r.tasks_total = Len(tasks)
            /\ Len(r.snapshots) = Cardinality(DOMAIN history)
            /\ \A k \in 1..Len(r.snapshots) :
                   /\ r.snapshots[k].t_now \in DOMAIN history
                   /\ r.snapshots[k] = history[r.snapshots[k].t_now]
                   /\ k > 1 => r.snapshots[k - 1].t_now < r.snapshots[k].t_now
    ]_vars

\* a run that ticked at least twice has returned with every task done
RunReturnedCompleted ==
    /\ results["live"] # NoResult
    /\ results["live"].result.completed
    /\ results["live"].result.makespan >= 2
    /\ results["live"].result.tasks_succeeded = Len(tasks)
    /\ Len(results["live"].result.snapshots) >= 3

\* every task is terminal in the snapshot of the live engine's next state
\* recorded at time t
AllTerminalInSnapshotNext(t) ==
    \A tid \in TaskIds :
        heap'[sims'["live"].history[t].task_states[tid]].status
            \in TerminalStatuses

\* C12: a call of run(max_steps) on an engine with dt >= 1 returns, without
\* raising, after at most max(0, max_steps - t_now) ticks; it performs no
\* tick once every task is terminal; and when it stops with a task still
\* non-terminal the budget is used up and completed is false
RunStopsWithinBudget ==
    [][(/\ sims["live"] # NoSim
        /\ results["live"] = NoResult
        /\ results' # results) =>
         LET before == sims["live"]
             after == sims'["live"]
             run == results'["live"]
             ticked == DOMAIN after.history \ DOMAIN before.history
         IN /\ raised'["live"] = NoException
            /\ run # NoResult
            /\ Cardinality(ticked) <= Max2(0, run.max_steps - before.t_now)
            /\ AllTerminal(before, heap) => ticked = {}
            /\ \A t \in ticked : t < after.t_now => ~AllTerminalInSnapshotNext(t)
            /\ ~AllTerminalInSnapshotNext(after.t_now) =>
                   /\ run.result.completed = FALSE
                   /\ after.t_now >= run.max_steps
    ]_vars

\* a run used up a budget of at least two ticks with a task still
\* non-terminal and returned completed = false
RunExhaustedBudget ==
    /\ results["live"] # NoResult
    /\ results["live"].result.completed = FALSE
    /\ results["live"].max_steps - results["live"].called_at >= 2
    /\ Len(results["live"].result.snapshots) >= 3
    /\ sims["live"].t_now >= results["live"].max_steps

-----------------------------------------------------------------------------
(* Errors *)

UnknownIdsAreDropped ==
    /\ raised["live"] = NoException
    /\ \A tid \in TaskIds :
           heap[LiveTask(tid).assigned_robot_ids] \subseteq RobotIds

\* what the pathfinding strategy returned for a robot in the tick that this
\* step performs (None when the plan phase did not call it)
PathfinderReturned(rid) ==
    LET sim == sims["live"]
        robot_assignment == robot_assignment_of(sims'["live"].current_assignments)
        updated == UpdateAssignmentStates(sim, 1, robot_assignment, heap)
    IN PlannedMove(sim, robot_assignment, updated, rid)

\* the cell is out of bounds or not one of the four neighbours of the cell
\* the position lies in
InvalidStepFrom(position, cell) ==
    \/ ~in_bounds(environment, cell)
    \/ Abs(Cell(cell)[1] - Cell(position)[1])
         + Abs(Cell(cell)[2] - Cell(position)[2]) # 1

\* C15: when the pathfinding strategy returns a cell that is out of bounds or
\* not adjacent to the robot's current cell, the robot's position is
\* unchanged in that tick
InvalidPlannedStepIsIgnored ==
    [][(/\ sims["live"] # NoSim
        /\ sims'["live"].t_now # sims["live"].t_now) =>
         \A rid \in RobotIds :
             (/\ PathfinderReturned(rid) # NonePos
              /\ InvalidStepFrom(LivePosition(rid), PathfinderReturned(rid))) =>
                 heap'[sims'["live"].robot_states[rid]].position
                     = LivePosition(rid)
    ]_vars

-----------------------------------------------------------------------------
(* Conflicts, assignments and timing *)

\* the robots whose planned step in this tick is the same cell as rid's
Contenders(rid) ==
    {other \in RobotIds : PathfinderReturned(other) = PathfinderReturned(rid)}

\* C16: when two or more robots plan a step into the same cell in one tick,
\* the contender with the smallest robot id moves there and every other
\* contender stays where it is, whatever the order of robot_states
SmallestIdWinsCell ==
    [][(/\ sims["live"] # NoSim
        /\ sims'["live"].t_now # sims["live"].t_now) =>
         \A rid \in RobotIds :
             (/\ PathfinderReturned(rid) # NonePos
              /\ Cardinality(Contenders(rid)) >= 2) =>
                 heap'[sims'["live"].robot_states[rid]].position =
                     IF \A other \in Contenders(rid) : rid <= other
                     THEN PathfinderReturned(rid)
                     ELSE LivePosition(rid)
    ]_vars

\* the robots whose last occurrence in the list is in an assignment for tid
LastNamedFor(assignments, tid) ==
    {rid \in RobotIds :
        \E i \in DOMAIN assignments :
            /\ rid \in assignments[i].robot_ids
            /\ assignments[i].task_id = tid
            /\ \A j \in (i + 1)..Len(assignments) :
                   rid \notin assignments[j].robot_ids}

\* task tid's assigned_robot_ids right after the assignment-update step of
\* a tick of the live engine in which the policy returns the list
AssignedAfterUpdate(assignments, tid) ==
    LET updated == UpdateAssignmentStates(sims["live"], 1,
                       robot_assignment_of(assignments), heap)
    IN updated[updated[sims["live"].task_states[tid]].assigned_robot_ids]

\* the state of task tid in the snapshot the live engine recorded last
LastSnapshotTask(tid) ==
    heap[sims["live"].history[sims["live"].t_now].task_states[tid]]

\* C17: after the assignment-update step of a tick every task's
\* assigned_robot_ids is the set of robots whose last occurrence in the
\* policy's list names that task, and the snapshot of the tick shows that set
\* for every task that is non-terminal in it
AssignedSetIsLastOccurrence ==
    /\ \A assignments \in AssignmentLists : \A tid \in TaskIds :
           AssignedAfterUpdate(assignments, tid) = LastNamedFor(assignments, tid)
    /\ sims["live"].t_now > 0 =>
           \A tid \in TaskIds :
               LastSnapshotTask(tid).status \notin TerminalStatuses =>
                   heap[LastSnapshotTask(tid).assigned_robot_ids]
                       = LastNamedFor(sims["live"].current_assignments, tid)

\* a tick has run in which the list named a robot under two tasks, and the
\* snapshot shows it only on the task named later, which is non-terminal
RobotNamedTwiceInTick ==
    LET assignments == sims["live"].current_assignments
    IN /\ sims["live"].t_now > 0
       /\ Len(assignments) = 2
       /\ assignments[1].task_id # assignments[2].task_id
       /\ \E rid \in assignments[1].robot_ids \cap assignments[2].robot_ids :
              /\ LastSnapshotTask(assignments[2].task_id).status
                     \notin TerminalStatuses
              /\ rid \in heap[LastSnapshotTask(assignments[2].task_id)
                                  .assigned_robot_ids]
              /\ rid \notin heap[LastSnapshotTask(assignments[1].task_id)
                                     .assigned_robot_ids]

\* the state of robot 1 and of task 1 in the snapshot recorded at time t
SnapshotRobot(t) == heap[sims["live"].history[t].robot_states[1]]

SnapshotTask(t) == heap[sims["live"].history[t].task_states[1]]

\* the Manhattan distance, in cells, from the start of robot 1 to the target
\* of task 1
TargetDistance ==
    (Abs(tasks[1].spatial_constraint.target[1] - SnapshotRobot(0).position[1])
     + Abs(tasks[1].spatial_constraint.target[2] - SnapshotRobot(0).position[2]))
        \div Scale

\* C18: one robot of speed 1 with dt = 1 on an obstacle-free grid, assigned
\* to one task whose target is a position at Manhattan distance d, with
\* required_work_time w >= 1 and the BFS pathfinder: the robot stands on
\* the target from tick d on (and not before), the task is done from tick
\* d + w on (and not before) with completed_at = d + w, and a run from the
\* start that completes returns d + w + 1 snapshots
SoloWalkThenWork ==
    (/\ sims["live"].dt = 1
     /\ tasks[1].spatial_constraint.kind = "position") =>
        LET d == TargetDistance
            w == tasks[1].required_work_time
        IN /\ \A t \in DOMAIN sims["live"].history :
                  /\ (SnapshotRobot(t).position = tasks[1].spatial_constraint.target)
                         <=> t >= d
                  /\ (SnapshotTask(t).status = "done") <=> t >= d + w
                  /\ SnapshotTask(t).status = "done" =>
                         SnapshotTask(t).completed_at = d + w
           /\ (results["live"] # NoResult /\ results["live"].result.completed) =>
                  /\ results["live"].result.makespan = d + w
                  /\ Len(results["live"].result.snapshots) = d + w + 1

\* the robot walked two cells and worked one tick, or walked one cell and
\* worked two ticks, and the task is done
SoloWalkedAndFinished ==
    /\ sims["live"].dt = 1
    /\ tasks[1].spatial_constraint.kind = "position"
    /\ TargetDistance >= 1
    /\ LiveTask(1).status = "done"
    /\ LivePosition(1) = tasks[1].spatial_constraint.target
    /\ LivePosition(1) # SnapshotRobot(0).position

\* robot 1 is on a non-terminal task without spatial constraint: it has not
\* moved in any recorded tick and the plan phase resolves no goal for it
\* (so the pathfinder is not called)
SoloStaysAndPlansNothing ==
    /\ \A t \in DOMAIN sims["live"].history :
           SnapshotRobot(t).position = SnapshotRobot(0).position
    /\ _resolve_task_target_position(tasks[1], LivePosition(1)) = NonePos
    /\ PlannedMove(sims["live"],
                   robot_assignment_of(<<Assignment(1, {1})>>), heap, 1) = NonePos

\* C20 as stated: a robot assigned to a task with no spatial constraint never
\* moves, the pathfinder is never called for it, and with one such robot a
\* task with required_work_time w is done after exactly w ticks
SoloDoneAfterWTicks ==
    tasks[1].spatial_constraint.kind = "none" =>
        /\ SoloStaysAndPlansNothing
        /\ \A t \in DOMAIN sims["live"].history :
               (SnapshotTask(t).status = "done")
                   <=> (t \div sims["live"].dt) >= tasks[1].required_work_time

\* C20, amended: a robot assigned to a task with no spatial constraint never
\* moves, the pathfinder is never called for it, and it applies dt of work
\* every tick: the work done after k ticks is k * dt until the task is done,
\* which is at the first tick with k * dt >= w (after exactly w ticks when
\* dt = 1)
SoloDoneWhenWorkReachesW ==
    tasks[1].spatial_constraint.kind = "none" =>
        /\ SoloStaysAndPlansNothing
        /\ \A t \in DOMAIN sims["live"].history :
               /\ (SnapshotTask(t).status = "done")
                      <=> t >= tasks[1].required_work_time
               /\ SnapshotTask(t).status # "done" => SnapshotTask(t).work_done = t
               /\ sims["live"].dt = 1 =>
                      ((SnapshotTask(t).status = "done")
                          <=> (t \div sims["live"].dt) >= tasks[1].required_work_time)

\* with dt = 2 a task without spatial constraint that needs two or more
\* units of work is done after fewer ticks than its required_work_time
SoloDoneInFewerTicks ==
    /\ tasks[1].spatial_constraint.kind = "none"
    /\ sims["live"].dt = 2
    /\ tasks[1].required_work_time >= 2
    /\ LiveTask(1).status = "done"
    /\ Ticks(sims["live"]) < tasks[1].required_work_time

\* the robots that appear in no assignment of the list
Unnamed(assignments) ==
    {rid \in RobotIds :
        \A i \in DOMAIN assignments : rid \notin assignments[i].robot_ids}

\* C19: in a tick, a robot that appears in no assignment keeps its position
\* and loses exactly dt * _DRAIN_IDLE_PER_TICK of battery; it is in no
\* task's assigned set after the tick, and in a tick in which no robot is
\* assigned no task gains work, a start time or a completion time, and a
\* status changes only from assigned to unassigned
UnassignedRobotIdles ==
    [][(/\ sims["live"] # NoSim
        /\ sims'["live"].t_now # sims["live"].t_now) =>
         LET idlers == Unnamed(sims'["live"].current_assignments)
         IN /\ \A rid \in idlers :
                   /\ heap'[sims'["live"].robot_states[rid]].position
                          = LivePosition(rid)
                   /\ heap'[sims'["live"].robot_states[rid]].battery_level
                          = heap[sims["live"].robot_states[rid]].battery_level
                            - sims["live"].dt * _DRAIN_IDLE_PER_TICK
                   /\ \A tid \in TaskIds :
                          rid \notin heap'[LiveTaskNext(tid).assigned_robot_ids]
            /\ idlers = RobotIds =>
                   \A tid \in TaskIds :
                       /\ LiveTaskNext(tid).work_done = LiveTask(tid).work_done
                       /\ LiveTaskNext(tid).started_at = LiveTask(tid).started_at
                       /\ LiveTaskNext(tid).completed_at = LiveTask(tid).completed_at
                       /\ \/ LiveTaskNext(tid).status = LiveTask(tid).status
                          \/ /\ LiveTask(tid).status = "assigned"
                             /\ LiveTaskNext(tid).status = "unassigned"
    ]_vars

\* a robot that moved in an earlier tick was left out of the last tick's
\* assignments while the other robot was assigned
RobotLeftOutAfterMoving ==
    \E rid \in Unnamed(sims["live"].current_assignments) :
        /\ Ticks(sims["live"]) >= 2
        /\ sims["live"].current_assignments # <<>>
        /\ LivePosition(rid) # StartPosition(rid)
        /\ heap[sims["live"].robot_states[rid]].battery_level < 10000

-----------------------------------------------------------------------------
(* Robots that cannot act on their task *)

\* the reverse index of the tick that this step performs
TickRobotAssignment == robot_assignment_of(sims'["live"].current_assignments)

\* the heap after the assignment-update step of the tick that this step
\* performs
TickUpdated ==
    UpdateAssignmentStates(sims["live"], 1, TickRobotAssignment, heap)

\* in the tick that this step performs the plan phase reaches the call of the
\* pathfinder for the robot: it is assigned to a non-terminal task whose goal
\* resolves and it is not at that goal
PathfinderCalled(rid) ==
    /\ rid \in DOMAIN TickRobotAssignment
    /\ TickUpdated[sims["live"].task_states[TickRobotAssignment[rid]]].status
           \notin TerminalStatuses
    /\ LET goal == _resolve_task_target_position(
                       _task_by_id(TickRobotAssignment[rid]), LivePosition(rid))
       IN /\ goal # NonePos
          /\ ~AtGoal(sims["live"], LivePosition(rid), goal)

\* the robots the tick's list assigns to the same task as rid
TeamOf(rid) ==
    {other \in DOMAIN TickRobotAssignment :
        TickRobotAssignment[other] = TickRobotAssignment[rid]}

\* C21: when the pathfinder returns none for an assigned robot that is not
\* at its goal, the tick does not raise, the robot keeps its position, its
\* battery drops by the idle drain dt * _DRAIN_IDLE_PER_TICK, and it adds
\* nothing to its task's work_done (which stays as it was when no other
\* robot is assigned to the task)
StuckRobotIdles ==
    [][(/\ sims["live"] # NoSim
        /\ sims'["live"].t_now # sims["live"].t_now) =>
         \A rid \in RobotIds :
             (PathfinderCalled(rid) /\ PathfinderReturned(rid) = NonePos) =>
                 /\ raised'["live"] = NoException
                 /\ heap'[sims'["live"].robot_states[rid]].position
                        = LivePosition(rid)
                 /\ heap'[sims'["live"].robot_states[rid]].battery_level
                        = heap[sims["live"].robot_states[rid]].battery_level
                          - sims["live"].dt * _DRAIN_IDLE_PER_TICK
                 /\ TeamOf(rid) = {rid} =>
                        LiveTaskNext(TickRobotAssignment[rid]).work_done
                            = LiveTask(TickRobotAssignment[rid]).work_done
    ]_vars

\* the snapshot recorded by the tick before the last one
PreviousSnapshot ==
    sims["live"].history[sims["live"].t_now - sims["live"].dt]

\* in the last tick the robot was assigned, alone, to a non-terminal task
\* with a goal it was not at, the BFS pathfinder found no step for it from
\* where it stood, and it is still there
RobotWasStuck ==
    /\ sims["live"] # NoSim
    /\ sims["live"].t_now > 0
    /\ \E rid \in RobotIds :
        LET ra == robot_assignment_of(sims["live"].current_assignments)
            before == heap[PreviousSnapshot.robot_states[rid]].position
        IN /\ rid \in DOMAIN ra
           /\ {other \in DOMAIN ra : ra[other] = ra[rid]} = {rid}
           /\ heap[PreviousSnapshot.task_states[ra[rid]]].status
                  \notin TerminalStatuses
           /\ LET goal == _resolve_task_target_position(_task_by_id(ra[rid]), before)
              IN /\ goal # NonePos
                 /\ ~AtGoal(sims["live"], before, goal)
                 /\ bfs_pathfind(environment, before, goal,
                        {heap[PreviousSnapshot.robot_states[other]].position :
                             other \in RobotIds \ {rid}}) = NonePos
           /\ LivePosition(rid) = before

\* planned_moves of the tick that this step performs, after the conflict loop
TickPlannedMoves ==
    LET sim == sims["live"]
        planned == [rid \in DOMAIN sim.robot_states |->
                       PlannedMove(sim, TickRobotAssignment, TickUpdated, rid)]
    IN ConflictLoop(MovingRobots(sim.robot_order, planned), planned, 1, planned)

\* the heap at the moment the execute loop of the tick that this step
\* performs reaches the robot: the robots before it in robot_states order
\* have been processed
HeapWhenProcessed(rid) ==
    LET sim == sims["live"]
    IN ExecuteLoop(sim, TickRobotAssignment, TickPlannedMoves,
                   sims'["live"].t_now,
                   SubSeq(sim.robot_order, 1, RobotIndex(sim.robot_order, rid) - 1),
                   TickUpdated)

\* C22: a robot whose assigned task is done or failed when the execute loop
\* processes it neither moves nor works in that tick: its position is
\* unchanged and its battery drops by the idle drain; this holds in the very
\* tick in which a robot processed before it completed the task
RobotOfTerminalTaskIdles ==
    [][(/\ sims["live"] # NoSim
        /\ sims'["live"].t_now # sims["live"].t_now) =>
         \A rid \in RobotIds \cap DOMAIN TickRobotAssignment :
             HeapWhenProcessed(rid)[sims["live"].task_states[
                 TickRobotAssignment[rid]]].status \in TerminalStatuses =>
                 /\ heap'[sims'["live"].robot_states[rid]].position
                        = LivePosition(rid)
                 /\ heap'[sims'["live"].robot_states[rid]].battery_level
                        = heap[sims["live"].robot_states[rid]].battery_level
                          - sims["live"].dt * _DRAIN_IDLE_PER_TICK
    ]_vars

\* the battery a robot lost in the last tick
LastDrain(rid) ==
    heap[PreviousSnapshot.robot_states[rid]].battery_level
        - heap[sims["live"].robot_states[rid]].battery_level

\* in the last tick two robots were assigned to one task; the one processed
\* first worked and completed the task, the one processed after it idled
SecondRobotIdledOnCompletion ==
    /\ sims["live"] # NoSim
    /\ sims["live"].t_now > 0
    /\ LET ra == robot_assignment_of(sims["live"].current_assignments)
           order == sims["live"].robot_order
       IN \E first, second \in DOMAIN ra \cap RobotIds :
              /\ RobotIndex(order, first) < RobotIndex(order, second)
              /\ ra[first] = ra[second]
              /\ heap[PreviousSnapshot.task_states[ra[first]]].status
                     \notin TerminalStatuses
              /\ LiveTask(ra[first]).status = "done"
              /\ LiveTask(ra[first]).completed_at = sims["live"].t_now
              /\ LastDrain(first) = sims["live"].dt * _DRAIN_WORK_PER_TICK
              /\ LastDrain(second) = sims["live"].dt * _DRAIN_IDLE_PER_TICK

-----------------------------------------------------------------------------
(* Capabilities *)

\* the robots, by index in the robots list, that the list assigns to tasks
\* that come before index i in the tasks list
UsedBefore(assignments, i) ==
    {j \in DOMAIN robots :
        \E k \in DOMAIN assignments :
            /\ robots[j].id \in assignments[k].robot_ids
            /\ \E i2 \in 1..(i - 1) : tasks[i2].id = assignments[k].task_id}

\* the robots, by index, that can take task i given the earlier choices
Feasible(assignments, i) ==
    {j \in DOMAIN robots \ UsedBefore(assignments, i) :
        tasks[i].required_capabilities \subseteq robots[j].capabilities}

\* the assignments of the list that name task i
AssignmentsFor(assignments, i) ==
    {k \in DOMAIN assignments : assignments[k].task_id = tasks[i].id}

\* C23: simple_assign goes through the tasks in input order and gives each
\* the first robot in input order that it has not used yet in this call and
\* whose capabilities include the task's required capabilities; the list
\* has at most one assignment per task, each of a single robot, no robot
\* twice, the tasks in input order, and no assignment for a task without a
\* feasible robot
SimpleAssignIsFirstFit ==
    LET out == simple_assign(tasks, robots)
    IN /\ \A i \in DOMAIN tasks :
              IF Feasible(out, i) = {}
              THEN AssignmentsFor(out, i) = {}
              ELSE \E k \in DOMAIN out :
                       /\ AssignmentsFor(out, i) = {k}
                       /\ \E j \in Feasible(out, i) :
                              /\ \A j2 \in Feasible(out, i) : j <= j2
                              /\ out[k].robot_ids = {robots[j].id}
       /\ \A k1, k2 \in DOMAIN out :
              k1 < k2 =>
                  /\ out[k1].robot_ids \cap out[k2].robot_ids = {}
                  /\ \E i1, i2 \in DOMAIN tasks :
                         /\ i1 < i2
                         /\ tasks[i1].id = out[k1].task_id
                         /\ tasks[i2].id = out[k2].task_id
       /\ sims["live"].assignment_algorithm.kind = "simple" =>
              sims["live"].current_assignments
                  \in {<<>>, simple_assign(tasks, robots)}

\* the engine has ticked under simple_assign, and the call passed over the
\* first robot of the list for the first task and over the second task
FirstFitPassedOver ==
    /\ sims["live"].assignment_algorithm.kind = "simple"
    /\ Ticks(sims["live"]) >= 1
    /\ sims["live"].current_assignments
           = <<Assignment(tasks[1].id, {robots[2].id})>>
    /\ tasks[2].required_capabilities \subseteq robots[2].capabilities

\* C24: after every tick, under any assignment policy, every robot in a
\* task's assigned_robot_ids has all of the task's required capabilities,
\* and a task that no robot is capable of has received no work
OnlyCapableRobotsAssigned ==
    \A tid \in TaskIds :
        /\ \A rid \in heap[LiveTask(tid).assigned_robot_ids] \cap RobotIds :
               _task_by_id(tid).required_capabilities
                   \subseteq _robot_by_id(rid).capabilities
        /\ (\A rid \in RobotIds :
                ~(_task_by_id(tid).required_capabilities
                      \subseteq _robot_by_id(rid).capabilities)) =>
               LiveTask(tid).work_done = 0


-----------------------------------------------------------------------------
(* The Task operations, call by call *)

\* the heaps a Task operation is applied to: the current one, and the current
\* one after task tid has been marked failed (no tick ever marks a task failed)
HeapsBefore(tid) ==
    {heap, mark_failed(sims["live"].task_states[tid], sims["live"].t_now, heap)}

\* every object of the heap other than the named ones is left as it was
OthersUntouched(before, after, touched) ==
    \A a \in 1..Len(before) : a \notin touched => after[a] = before[a]

\* C25: set_assignment(state, R) makes R the assigned set; the status becomes
\* unassigned when R is empty and the status was unassigned or assigned,
\* becomes assigned when R is non-empty and the status was unassigned, and is
\* unchanged otherwise (in_progress, done and failed stay); work_done,
\* started_at and completed_at never change, and no other object changes
SetAssignmentTable ==
    \A tid \in TaskIds : \A robot_ids \in SUBSET RobotIds :
        \A before \in HeapsBefore(tid) :
            LET state == sims["live"].task_states[tid]
                after == set_assignment(state, robot_ids, before)
                old == before[state]
                new == after[state]
            IN /\ after[new.assigned_robot_ids] = robot_ids
               /\ new.status =
                      IF robot_ids = {} /\ old.status \in {"unassigned", "assigned"}
                      THEN "unassigned"
                      ELSE IF robot_ids # {} /\ old.status = "unassigned"
                      THEN "assigned"
                      ELSE old.status
               /\ old.status \in {"in_progress", "done", "failed"}
                      => new.status = old.status
               /\ new.work_done = old.work_done
               /\ new.started_at = old.started_at
               /\ new.completed_at = old.completed_at
               /\ new.task_id = old.task_id
               /\ OthersUntouched(before, after, {state})

\* C25 witness: a direct call has emptied the assignment of a task in progress,
\* which kept its status and its work
InProgressTaskUnassigned ==
    /\ calls > 0
    /\ \E tid \in TaskIds :
           /\ LiveTask(tid).status = "in_progress"
           /\ LiveTask(tid).work_done > 0
           /\ heap[LiveTask(tid).assigned_robot_ids] = {}


\* the dt and t_now values an apply_work call is tried with
WorkSteps == {1, 2}
WorkTimes == {sims["live"].t_now, sims["live"].t_now + 1}

\* C26: apply_work on a task that is not done or failed sets started_at to
\* t_now only when it was unset, adds dt to work_done, and leaves the task
\* done exactly when work_done has reached required_work_time and in_progress
\* otherwise; on a done or failed task it changes nothing
ApplyWorkTable ==
    \A tid \in TaskIds : \A dt \in WorkSteps : \A t_now \in WorkTimes :
        \A before \in HeapsBefore(tid) :
            LET state == sims["live"].task_states[tid]
                after == apply_work(_task_by_id(tid), state, dt, t_now, before)
                old == before[state]
                new == after[state]
                finished == old.work_done + dt >= _task_by_id(tid).required_work_time
            IN IF old.status \in {"done", "failed"}
               THEN after = before
               ELSE /\ new.started_at =
                           IF old.started_at = NoneTime THEN t_now
                           ELSE old.started_at
                    /\ new.work_done = old.work_done + dt
                    /\ new.status = IF finished THEN "done" ELSE "in_progress"
                    /\ new.completed_at =
                           IF finished THEN t_now ELSE old.completed_at
                    /\ new.assigned_robot_ids = old.assigned_robot_ids
                    /\ after[new.assigned_robot_ids] =
                           IF finished THEN {}
                           ELSE before[old.assigned_robot_ids]
                    /\ OthersUntouched(before, after,
                                       {state, old.assigned_robot_ids})

\* C26 witness: before the first tick a direct call has put work into a task
\* and stamped its start, and the task is not finished yet
WorkAppliedBeforeFirstTick ==
    /\ Ticks(sims["live"]) = 0
    /\ \E tid \in TaskIds :
           /\ LiveTask(tid).status = "in_progress"
           /\ LiveTask(tid).started_at = sims["live"].t_now
           /\ LiveTask(tid).work_done = sims["live"].dt
           /\ LiveTask(tid).work_done < _task_by_id(tid).required_work_time


\* a Task operation has left the task in the given terminal status, stamped
\* with t_now and with no robot assigned
EnteredTerminal(after, state, status, t_now) ==
    /\ after[state].status = status
    /\ after[state].completed_at = t_now
    /\ after[after[state].assigned_robot_ids] = {}

\* the task of the snapshot recorded at time t
SnapshotTaskOf(t, tid) == heap[sims["live"].history[t].task_states[tid]]

\* C27: mark_done, mark_failed and an apply_work that reaches the required
\* work leave the task terminal with completed_at = t_now and no robot
\* assigned; and in the snapshot of the tick in which a task became done or
\* failed, completed_at is that tick's time and assigned_robot_ids is empty
TerminalEntryStampedAndCleared ==
    /\ \A tid \in TaskIds : \A t_now \in WorkTimes :
           LET state == sims["live"].task_states[tid]
               task == _task_by_id(tid)
               dt == sims["live"].dt
           IN /\ EnteredTerminal(mark_done(state, t_now, heap), state,
                                 "done", t_now)
              /\ EnteredTerminal(mark_failed(state, t_now, heap), state,
                                 "failed", t_now)
              /\ (/\ heap[state].status \notin TerminalStatuses
                  /\ heap[state].work_done + dt >= task.required_work_time)
                     => EnteredTerminal(apply_work(task, state, dt, t_now, heap),
                                        state, "done", t_now)
    /\ \A tid \in TaskIds : \A t \in SnapshotTimesWithNext :
           LET next == t + sims["live"].dt
           IN (/\ SnapshotStatus(t, tid) \notin TerminalStatuses
               /\ SnapshotStatus(next, tid) \in TerminalStatuses)
                  => /\ SnapshotTaskOf(next, tid).completed_at = next
                     /\ heap[SnapshotTaskOf(next, tid).assigned_robot_ids] = {}

\* C27 witness: a task that had a robot assigned in one snapshot is done in the
\* next one, stamped with that tick's time and with nobody assigned
TaskFinishedInRecordedTick ==
    \E tid \in TaskIds : \E t \in SnapshotTimesWithNext :
        LET next == t + sims["live"].dt
        IN /\ SnapshotStatus(t, tid) = "in_progress"
           /\ heap[SnapshotTaskOf(t, tid).assigned_robot_ids] # {}
           /\ SnapshotStatus(next, tid) = "done"
           /\ SnapshotTaskOf(next, tid).completed_at = next
           /\ heap[SnapshotTaskOf(next, tid).assigned_robot_ids] = {}


-----------------------------------------------------------------------------
(* The environment under add_obstacle and add_zone *)

\* the zone collides with the environment: its id is taken, a cell is out of
\* bounds, or a cell belongs to a zone already there
ZoneRejected(env, zone) ==
    \/ zone.id \in DOMAIN env.zones
    \/ \E pos \in CellSet(zone.cells) : ~in_bounds(env, pos)
    \/ \E k \in DOMAIN env.zones : \E pos \in CellSet(zone.cells) :
           pos \in CellSet(env.zones[k])

\* C28: add_zone raises and leaves zones and obstacles as they were when the
\* zone id exists, a cell is out of bounds or a cell belongs to an existing
\* zone; otherwise it raises nothing, the zone is stored under its id, and
\* the other zones, the obstacles and the size are as they were
AddZoneAtomic ==
    \A zone \in EnvZones :
        LET res == add_zone(environment, zone)
        IN IF ZoneRejected(environment, zone)
           THEN /\ res.raised # NoException
                /\ res.env = environment
           ELSE /\ res.raised = NoException
                /\ DOMAIN res.env.zones = DOMAIN environment.zones \cup {zone.id}
                /\ res.env.zones[zone.id] = zone.cells
                /\ \A k \in DOMAIN environment.zones :
                       res.env.zones[k] = environment.zones[k]
                /\ res.env.obstacles = environment.obstacles
                /\ res.env.width = environment.width
                /\ res.env.height = environment.height

\* C28 witness: an add_zone call has just been refused with a ValueError by an
\* environment that holds a zone and an obstacle
AddZoneRefused ==
    /\ raised["environment"] = "ValueError"
    /\ DOMAIN environment.zones # {}
    /\ environment.obstacles # {}
    /\ \E zone \in EnvZones :
           /\ zone.id \notin DOMAIN environment.zones
           /\ \A pos \in CellSet(zone.cells) : in_bounds(environment, pos)
           /\ ZoneRejected(environment, zone)


AddBoth(env, first, second) == add_zone(add_zone(env, first).env, second).env

\* the two zones get in each other's way: same id or a common cell
Clash(a, b) ==
    a.id = b.id \/ CellSet(a.cells) \cap CellSet(b.cells) # {}

\* C30, as stated: adding any two zones A and B in either order yields the
\* same environment
AnyTwoZonesCommute ==
    \A a \in EnvZones : \A b \in EnvZones :
        AddBoth(environment, a, b) = AddBoth(environment, b, a)

\* C30, amended: adding two zones with different ids and no common cell in
\* either order yields the same environment; two different zones that share
\* an id or a cell, each acceptable on its own, leave the one added first,
\* so there the order shows
DisjointZonesCommute ==
    \A a \in EnvZones : \A b \in EnvZones :
        /\ ~Clash(a, b) => AddBoth(environment, a, b) = AddBoth(environment, b, a)
        /\ (/\ Clash(a, b)
            /\ a # b
            /\ ~ZoneRejected(environment, a)
            /\ ~ZoneRejected(environment, b))
               => /\ AddBoth(environment, a, b) = add_zone(environment, a).env
                  /\ AddBoth(environment, b, a) = add_zone(environment, b).env
                  /\ AddBoth(environment, a, b) # AddBoth(environment, b, a)

\* C30 witness: two calls on the empty environment have added two zones with
\* cells, and the same two calls in the other order give this environment too
TwoZonesAddedEitherWay ==
    /\ calls = 2
    /\ \E a \in EnvZones : \E b \in EnvZones :
           /\ a.id # b.id
           /\ a.cells # <<>> /\ b.cells # <<>>
           /\ DOMAIN environment.zones = {a.id, b.id}
           /\ environment = AddBoth(Environment(2, 1), a, b)
           /\ environment = AddBoth(Environment(2, 1), b, a)


-----------------------------------------------------------------------------
(* The BFS pathfinder as a function *)

\* the last pathfinder call: its arguments and the step it returned
BfsCall == results["pathfinder"]

BfsCalled == BfsCall # NoResult

\* a cell a path may pass through
FreeCell(cell, occupied) ==
    /\ in_bounds(environment, cell)
    /\ cell \notin environment.obstacles
    /\ cell \notin occupied

\* the free cells next to the cells of a set
FreeNeighbours(cells, occupied) ==
    {n \in GridCells(environment.width, environment.height) :
        /\ FreeCell(n, occupied)
        /\ \E c \in cells : Adjacent(c, n)}

\* the cells reached from the frontier by at most k further moves to free cells
RECURSIVE ReachedWithin(_, _, _)
ReachedWithin(cells, occupied, k) ==
    IF k = 0 THEN cells
    ELSE ReachedWithin(cells \cup FreeNeighbours(cells, occupied), occupied, k - 1)

\* more moves than any path without repeated cells has
FarthestWalk == environment.width * environment.height

\* a 4-connected path of free cells leads from the cell to the goal
Reachable(from, goal, occupied) ==
    goal \in ReachedWithin(FreeNeighbours({from}, occupied), occupied, FarthestWalk)

\* the number of moves of a shortest such path (from # goal, goal reachable)
PathLength(from, goal, occupied) ==
    IF from = goal THEN 0
    ELSE CHOOSE k \in 1..(FarthestWalk + 1) :
             /\ goal \in ReachedWithin(FreeNeighbours({from}, occupied), occupied, k - 1)
             /\ k > 1 => goal \notin ReachedWithin(FreeNeighbours({from}, occupied),
                                                   occupied, k - 2)

\* C31: for start # goal with a reachable goal, bfs_pathfind returns a cell
\* next to start (4-adjacent) that is in bounds, not an obstacle, not occupied
\* and one move closer to the goal on a shortest path; a goal next to start
\* is returned itself
BfsReturnsShortestFirstStep ==
    (/\ BfsCalled
     /\ BfsCall.start # BfsCall.goal
     /\ Reachable(BfsCall.start, BfsCall.goal, BfsCall.occupied))
        => /\ BfsCall.step # NonePos
           /\ Adjacent(BfsCall.start, BfsCall.step)
           /\ FreeCell(BfsCall.step, BfsCall.occupied)
           /\ PathLength(BfsCall.step, BfsCall.goal, BfsCall.occupied) =
                  PathLength(BfsCall.start, BfsCall.goal, BfsCall.occupied) - 1
           /\ Adjacent(BfsCall.start, BfsCall.goal) => BfsCall.step = BfsCall.goal

\* C31 witness: the straight way to the goal is blocked by an obstacle and by
\* another robot, and the returned step starts a detour of four moves
BfsDetourFound ==
    /\ BfsCalled
    /\ BfsCall.start = Position(0, 0)
    /\ BfsCall.goal = Position(2, 0)
    /\ Position(1, 0) \in environment.obstacles
    /\ BfsCall.occupied # {}
    /\ BfsCall.step = Position(0, 1)
    /\ PathLength(BfsCall.start, BfsCall.goal, BfsCall.occupied) > 2


\* C32: for start # goal, bfs_pathfind returns None exactly when no
\* 4-connected path of in-bounds, non-obstacle, non-occupied cells leads from
\* start to goal, in particular when the goal itself is an obstacle or is
\* occupied; for start = goal it returns start
BfsNoneIffUnreachable ==
    BfsCalled
        => /\ BfsCall.start = BfsCall.goal => BfsCall.step = BfsCall.start
           /\ BfsCall.start # BfsCall.goal
                  => (BfsCall.step = NonePos
                         <=> ~Reachable(BfsCall.start, BfsCall.goal, BfsCall.occupied))
           /\ (/\ BfsCall.start # BfsCall.goal
               /\ \/ BfsCall.goal \in environment.obstacles
                  \/ BfsCall.goal \in BfsCall.occupied)
                  => BfsCall.step = NonePos

\* C32 witness: the goal is the obstacle cell next to start, every other cell
\* is free, and the pathfinder returned None
BfsGoalIsObstacle ==
    /\ BfsCalled
    /\ Adjacent(BfsCall.start, BfsCall.goal)
    /\ environment.obstacles = {BfsCall.goal}
    /\ BfsCall.occupied = {}
    /\ BfsCall.step = NonePos


-----------------------------------------------------------------------------
(* The A* pathfinder as a function *)

\* the last astar_pathfind call: its arguments and the step it returned
AstarCall == results["pathfinder"]

\* two different cells that touch by a side or a corner
Adjacent8(a, b) ==
    a # b /\ Abs(a[1] - b[1]) <= 1 /\ Abs(a[2] - b[2]) <= 1

\* the cell is next to an obstacle by a side without being an obstacle
NextToObstacle(cell) ==
    /\ cell \notin CellsOf(environment.obstacles)
    /\ \E o \in CellsOf(environment.obstacles) :
           Abs(cell[1] - o[1]) + Abs(cell[2] - o[2]) = 1

\* the returned step is a legal move: in bounds, next to the start cell, on no
\* obstacle, on no occupied cell, and next to an obstacle only as the goal
AstarStepIsClear ==
    /\ in_bounds(environment, AstarCall.step)
    /\ Adjacent8(Cell(AstarCall.step), Cell(AstarCall.start))
    /\ Cell(AstarCall.step) \notin CellsOf(environment.obstacles)
    /\ Cell(AstarCall.step) \notin CellsOf(AstarCall.occupied)
    /\ NextToObstacle(Cell(AstarCall.step))
           => Cell(AstarCall.step) = Cell(AstarCall.goal)

\* C33, as stated: whatever the start, a returned step is in bounds,
\* 8-adjacent to the start cell, no obstacle cell, no occupied cell and no
\* cardinal neighbour of an obstacle unless it is the goal cell
AstarStepAlwaysClear ==
    (AstarCall # NoResult /\ AstarCall.step # NonePos) => AstarStepIsClear

\* C33, amended: that holds when the start cell differs from the goal cell; a
\* start inside the goal cell gets the goal back, which is not a neighbouring
\* cell and may be next to an obstacle or on one
AstarStepClearAwayFromGoal ==
    AstarCall # NoResult
        => /\ (/\ Cell(AstarCall.start) # Cell(AstarCall.goal)
               /\ AstarCall.step # NonePos) => AstarStepIsClear
           /\ Cell(AstarCall.start) = Cell(AstarCall.goal)
                  => AstarCall.step = AstarCall.goal

\* C33 witness: the returned step is the goal, two cells from the start would
\* be wrong, one diagonal move away and next to an obstacle
AstarSteppedOntoGoalByObstacle ==
    /\ AstarCall # NoResult
    /\ AstarCall.step = AstarCall.goal
    /\ Cell(AstarCall.start) # Cell(AstarCall.goal)
    /\ NextToObstacle(Cell(AstarCall.goal))
    /\ Abs(Cell(AstarCall.start)[1] - Cell(AstarCall.goal)[1]) = 1
    /\ Abs(Cell(AstarCall.start)[2] - Cell(AstarCall.goal)[2]) = 1


-----------------------------------------------------------------------------
(* Zone targets *)

\* the Manhattan distance of two positions
Manhattan(p, q) == Abs(p[1] - q[1]) + Abs(p[2] - q[2])

\* the cells of the zone a task is bound to ({} when the zone is missing)
TargetZoneCells(tid) ==
    CellSet(get_zone(environment, _task_by_id(tid).spatial_constraint.target))

\* the goal resolved for the robot is a cell of the zone, and no cell of the
\* zone is nearer to the robot in Manhattan distance
GoalIsNearestZoneCell(rid, tid) ==
    LET goal == _resolve_task_target_position(_task_by_id(tid), LivePosition(rid))
    IN /\ goal \in TargetZoneCells(tid)
       /\ \A cell \in TargetZoneCells(tid) :
              Manhattan(goal, LivePosition(rid)) <= Manhattan(cell, LivePosition(rid))

\* the robot stands on a cell of the zone: Zone.contains(position)
StandsInZone(rid, tid) ==
    Position(Cell(LivePosition(rid))[1], Cell(LivePosition(rid))[2])
        \in TargetZoneCells(tid)

\* C34: for a task with a ZoneId target the goal of its robot in a tick is a
\* cell of the zone at minimal Manhattan distance from the robot's position,
\* and a robot standing on a cell of the zone is at its goal: in the tick it
\* keeps its position and adds dt to the task's work
ZoneRobotWorksInPlace ==
    [][(/\ sims["live"] # NoSim
        /\ sims'["live"].t_now # sims["live"].t_now
        /\ LiveTask(1).status \notin TerminalStatuses)
           => /\ GoalIsNearestZoneCell(1, 1)
              /\ StandsInZone(1, 1)
                     => /\ heap'[sims'["live"].robot_states[1]].position
                               = LivePosition(1)
                        /\ LiveTaskNext(1).work_done
                               = LiveTask(1).work_done + sims["live"].dt]_vars


\* the tasks bound to a zone that the environment does not have
MissingZoneTasks ==
    {tid \in TaskIds :
        /\ _task_by_id(tid).spatial_constraint.kind = "zone"
        /\ _task_by_id(tid).spatial_constraint.target \notin DOMAIN environment.zones}

\* C35: a robot assigned to a task whose ZoneId target names a zone absent
\* from the environment gets no planned step, does not move and idles; the
\* task accumulates no work and never becomes in_progress or done
MissingZoneTaskGetsNoWork ==
    [][(/\ sims["live"] # NoSim
        /\ sims'["live"].t_now # sims["live"].t_now
        /\ raised'["live"] = NoException)
           => /\ \A rid \in DOMAIN TickRobotAssignment :
                     TickRobotAssignment[rid] \in MissingZoneTasks
                         => /\ TickPlannedMoves[rid] = NonePos
                            /\ heap'[sims'["live"].robot_states[rid]].position
                                   = LivePosition(rid)
              /\ \A tid \in MissingZoneTasks :
                     /\ LiveTaskNext(tid).work_done = 0
                     /\ LiveTaskNext(tid).status \notin {"in_progress", "done"}]_vars


-----------------------------------------------------------------------------
(* Terminal tasks over a run *)

\* C36: the engine never fails a task: a task that is failed in a recorded
\* snapshot was failed in the initial task_states, and a task that started
\* out failed keeps the completed_at it started with (mark_failed, which
\* would stamp it, is never invoked)
EngineNeverFailsTask ==
    \A tid \in TaskIds : \A t \in DOMAIN sims["live"].history :
        /\ SnapshotStatus(t, tid) = "failed" => SnapshotStatus(0, tid) = "failed"
        /\ SnapshotStatus(0, tid) = "failed"
               => SnapshotTaskOf(t, tid).completed_at
                      = SnapshotTaskOf(0, tid).completed_at

\* C36 witness: a task started out failed, another task has been completed
\* by the engine, and the last tick's list still named the failed task
FailedFromTheStart ==
    /\ Ticks(sims["live"]) >= 2
    /\ \E tid \in TaskIds : \E other \in TaskIds :
           /\ SnapshotStatus(0, tid) = "failed"
           /\ LiveTask(tid).status = "failed"
           /\ LiveTask(other).status = "done"
           /\ \E i \in DOMAIN sims["live"].current_assignments :
                  sims["live"].current_assignments[i].task_id = tid


\* C37: in every snapshot recorded after a tick, a task that is done or
\* failed has no robot assigned, also in the ticks after its completion in
\* which the policy still names it
TerminalTaskHasNoRobots ==
    \A tid \in TaskIds : \A t \in DOMAIN sims["live"].history :
        (t > 0 /\ SnapshotStatus(t, tid) \in TerminalStatuses)
            => heap[SnapshotTaskOf(t, tid).assigned_robot_ids] = {}


\* C38: with dt = 1, tasks that start unassigned with no work done and
\* require at least one tick of work are, in every snapshot, done exactly
\* when work_done >= required_work_time, and their work_done never exceeds
\* required_work_time, also when several robots work on a task in one tick
WorkNeverExceedsRequired ==
    sims["live"].dt = 1
        => \A tid \in TaskIds : \A t \in DOMAIN sims["live"].history :
               (/\ SnapshotStatus(0, tid) = "unassigned"
                /\ SnapshotTaskOf(0, tid).work_done = 0
                /\ _task_by_id(tid).required_work_time >= 1)
                   => /\ SnapshotStatus(t, tid) = "done"
                          <=> SnapshotTaskOf(t, tid).work_done
                                  >= _task_by_id(tid).required_work_time
                      /\ SnapshotTaskOf(t, tid).work_done
                             <= _task_by_id(tid).required_work_time

\* C38 witness: with dt = 1 the tick's list put two robots on a task that
\* needs one tick of work; the task was completed in that tick and holds
\* exactly the work it requires
TwoRobotsOnOneTickTask ==
    /\ sims["live"].dt = 1
    /\ Ticks(sims["live"]) = 1
    /\ \E i \in DOMAIN sims["live"].current_assignments :
           LET a == sims["live"].current_assignments[i]
           IN /\ Cardinality(a.robot_ids) = 2
              /\ \A rid \in a.robot_ids :
                     robot_assignment_of(sims["live"].current_assignments)[rid]
                         = a.task_id
              /\ _task_by_id(a.task_id).required_work_time = 1
              /\ SnapshotStatus(1, a.task_id) = "done"
              /\ SnapshotTaskOf(1, a.task_id).work_done = 1


-----------------------------------------------------------------------------
(* One task per robot *)

\* the tasks whose assigned_robot_ids hold the robot in the snapshot at t
TasksHolding(t, rid) ==
    {tid \in TaskIds : rid \in heap[SnapshotTaskOf(t, tid).assigned_robot_ids]}

\* C39: after every tick each robot id is in the assigned_robot_ids of at
\* most one task, whatever list the policy returned, lists that name a robot
\* under several tasks included
RobotInAtMostOneTask ==
    \A rid \in RobotIds :
        /\ \A t \in DOMAIN sims["live"].history :
               t > 0 => Cardinality(TasksHolding(t, rid)) <= 1
        /\ Ticks(sims["live"]) > 0
               => Cardinality({tid \in TaskIds :
                                  rid \in heap[LiveTask(tid).assigned_robot_ids]}) <= 1

\* C39 witness: the last tick's list named a robot under two tasks, and the
\* snapshot of that tick has the robot in the set of exactly one of them
NamedTwiceHeldOnce ==
    /\ Ticks(sims["live"]) > 0
    /\ \E rid \in RobotIds :
           /\ Cardinality({i \in DOMAIN sims["live"].current_assignments :
                  rid \in sims["live"].current_assignments[i].robot_ids}) = 2
           /\ Cardinality(TasksHolding(sims["live"].t_now, rid)) = 1


-----------------------------------------------------------------------------
(* The greedy assigner over a run *)

\* the tasks simple_assign gives a robot
TasksServed ==
    {simple_assign(tasks, robots)[i].task_id : i \in DOMAIN simple_assign(tasks, robots)}

\* C40: under simple_assign every tick uses the same robot-to-task mapping,
\* the one computed from the static task and robot lists: a robot whose task
\* is done is not given another task, and a task without a robot on the first
\* tick receives no work in any tick
GreedyMappingIsStatic ==
    [][(/\ sims["live"] # NoSim
        /\ sims["live"].assignment_algorithm.kind = SimplePolicy.kind
        /\ sims'["live"].t_now # sims["live"].t_now)
           => /\ sims'["live"].current_assignments = simple_assign(tasks, robots)
              /\ Ticks(sims["live"]) > 0
                     => robot_assignment_of(sims'["live"].current_assignments)
                            = robot_assignment_of(sims["live"].current_assignments)
              /\ \A tid \in TaskIds \ TasksServed :
                     /\ LiveTaskNext(tid).work_done = 0
                     /\ LiveTaskNext(tid).status = "unassigned"]_vars

\* C40 witness: after three ticks under simple_assign one task is done, and
\* the robot that did it has the capabilities of the other task, which
\* never got a robot and is still unassigned without work
IdleRobotNeverReassigned ==
    /\ sims["live"].assignment_algorithm.kind = SimplePolicy.kind
    /\ Ticks(sims["live"]) = 3
    /\ \E finished \in TasksServed : \E skipped \in TaskIds \ TasksServed :
           /\ LiveTask(finished).status = "done"
           /\ LiveTask(skipped).status = "unassigned"
           /\ LiveTask(skipped).work_done = 0
           /\ \E rid \in RobotIds :
                  /\ rid \in DOMAIN robot_assignment_of(simple_assign(tasks, robots))
                  /\ robot_assignment_of(simple_assign(tasks, robots))[rid] = finished
                  /\ _task_by_id(skipped).required_capabilities
                         \subseteq _robot_by_id(rid).capabilities

====
